---- MODULE Spec2Model ----
(***************************************************************************)
(* Streaming CSV ingestion and reconciliation engine of postalwiki_server: *)
(* the import / phone-update run coordination of                           *)
(* controllers/SocialScrape.controller.js and the batch reconciliation and *)
(* upsert logic of services/SocialScrape.service.js.                       *)
(*                                                                         *)
(* Node runs the handlers on one event loop: a handler runs without        *)
(* interruption from one await to the next, so every action below is one   *)
(* such run-to-suspension segment (including the microtask continuations   *)
(* that follow a resolved promise before any other I/O callback can run).  *)
(***************************************************************************)
EXTENDS Integers, Sequences, FiniteSets, TLC

\* ------------------------------------------------------------------ bounds
MaxFiles == 2        \* files a directory listing returns
MaxPipelines == 2    \* processFiles invocations spawned in one behaviour
MaxListing == 2      \* startImport handlers suspended at getImportFiles
MaxFlushes == 1      \* mid-stream flushes (insertBatch awaits) per file
MaxRuns == 2         \* phone runs started in one behaviour
MaxRows == 2         \* rows of an ingested file
MaxBatchSize == 2    \* largest BATCH_SIZE explored (the code's is 1000)
MaxFaults == 1       \* failing bulkWrite calls injected in one behaviour
MaxPermRows == 4     \* rows of a file whose rows each set a different attribute
MaxCallers == 2      \* concurrent callers of the store
MaxClock == 2        \* last instant the clock reaches
MaxUrlRows == 4      \* rows a phone file holds for one domain

VARIABLES
    importProgressTracker,  \* the process-wide import progress record
    pipes,                  \* processFiles invocations, in spawn order
    listing,                \* startImport handlers awaiting getImportFiles
    phoneProgressStore,     \* processId -> phone progress record
    phoneRuns,              \* processPhoneFiles invocations, by processId
    lastResp,               \* the last HTTP response sent
    stoppedPipes,           \* history: pipelines alive when stopImport succeeded
    stopAccepted,           \* history: stopImport succeeded, no import started since
    stoppedRuns,            \* history: phone runs whose stop request succeeded
    snapshots,              \* processId -> the copy processPhoneFiles holds
    timers,                 \* pending one-hour cleanup timers of phone records
    blacklistProgressStore, \* processId -> blacklist progress record
    blacklistRuns,          \* processBlacklistFiles invocations, by processId
    store,                  \* the SocialScrape collection, in insertion order
    now,                    \* the clock new Date() reads
    BATCH_SIZE,             \* rows (import) or URLs (phone) per batch
    input,                  \* the file being ingested: its kind and its rows
    ingest,                 \* the locals of processFile / processPhoneFile
    hist,                   \* history: pass number, earlier stores, faults
    clients                 \* store calls in flight, one per concurrent caller

vars == <<importProgressTracker, pipes, listing, phoneProgressStore, phoneRuns,
          lastResp, stoppedPipes, stopAccepted, stoppedRuns,
          snapshots, timers, blacklistProgressStore, blacklistRuns,
          store, now, BATCH_SIZE, input, ingest, hist, clients>>

storeVars == <<store, now, BATCH_SIZE, input, ingest, hist, clients>>
blacklistVars == <<blacklistProgressStore, blacklistRuns>>
coordVars == <<pipes, listing, phoneRuns, lastResp, stoppedPipes, stopAccepted,
               stoppedRuns, snapshots, timers, blacklistVars, clients>>
ingestVars == <<BATCH_SIZE, input, ingest, hist>>

importVars == <<importProgressTracker, pipes, listing, stoppedPipes, stopAccepted>>
phoneVars == <<phoneProgressStore, phoneRuns, stoppedRuns, snapshots, timers>>

\* ------------------------------------------------ entries of errors lists
\* An entry is a plain string (errors.push('...')) or an object
\* {filename, error} (errors.push({filename, error: '...'})); kind keeps the two
\* apart, text is the string itself or the object's error property.
StringEntry(text) == [kind |-> "string", text |-> text]
ObjectEntry(text) == [kind |-> "object", text |-> text]

StoppedByUser == StringEntry("Import was stopped by user")
PhoneStoppedByUser == StringEntry("Process was stopped by user")
PhoneTimeoutMsg == StringEntry("Phone processing timeout - process took too long")
PhoneFileFailed == StringEntry("Failed to process file")
InsertBatchError == ObjectEntry("insertBatch error")
SkippedMalformed == ObjectEntry("Skipped malformed line")
SkippedSummary == ObjectEntry("Skipped n malformed lines during processing")
CsvParsingError == ObjectEntry("CSV parsing error (continuing with valid lines)")

IsObjectEntry(e) == e.kind = "object"

\* The four substrings processFiles treats as non-fatal.
NonFatalText(e) == e \in {SkippedMalformed, SkippedSummary, CsvParsingError}

\* errors.some(error => !error.error.includes(...) && ...): entries are visited
\* in order; a string entry has no .error, so error.error.includes throws a
\* TypeError; the first fatal object entry ends the scan with true.
RECURSIVE hasFatalErrors(_)
hasFatalErrors(errors) ==
    IF errors = <<>> THEN "false"
    ELSE IF ~IsObjectEntry(Head(errors)) THEN "TypeError"
    ELSE IF ~NonFatalText(Head(errors)) THEN "true"
    ELSE hasFatalErrors(Tail(errors))

\* ------------------------------------------------ import progress record
InitialImportProgress ==
    [currentFile |-> 0, processed |-> 0, total |-> 0, upserted |-> 0,
     modified |-> 0, errors |-> <<>>, isComplete |-> FALSE, isRunning |-> FALSE]

\* resetImportProgress(): every field back to its initial value.
resetImportProgress(t) == InitialImportProgress

setImportRunning(t, running) == [t EXCEPT !.isRunning = running]

\* getImportProgress(): { ...importProgressTracker }, a shallow copy.  Scalar
\* fields written through the copy are lost; the errors array is shared, so a
\* push through the copy reaches the record.  MarkCompleteOnCopy gives the
\* record after a caller did  progress.isComplete = true;
\* progress.errors.push(entry)  on such a copy.
MarkCompleteOnCopy(t, entry) ==
    [t EXCEPT !.errors = Append(@, entry)]

\* A guard that looks at isComplete alone and misses the running import.
ImportAlreadyRunning_OnlyComplete(t) == t.isComplete

\* The guard of startImport (controller lines 20-21).
ImportAlreadyRunning(t) == t.isRunning /\ ~t.isComplete

\* The guard of stopImport (controller line 529).
NoImportRunning(t) == ~t.isRunning \/ t.isComplete

\* processFile's synchronous prologue (service lines 383-390).
ProcessFileReset(t, file) ==
    [t EXCEPT !.currentFile = file, !.processed = 0, !.total = 0, !.upserted = 0,
              !.modified = 0, !.errors = <<>>, !.isComplete = FALSE]

NewPipe(n) == [files |-> n, i |-> 1, pc |-> "streaming", processed |-> 0,
               flushes |-> 0, skippedLines |-> 0]

ActivePipes == {p \in 1..Len(pipes) : pipes[p].pc # "done"}

\* ------------------------------------------------------------ import run
\* startImport up to its first await (controller lines 10-28): the single-
\* flight guard answers 409, otherwise the handler suspends on getImportFiles.
StartImportBegin ==
    /\ IF ImportAlreadyRunning(importProgressTracker)
       THEN /\ lastResp' = [op |-> "startImport", status |-> 409]
            /\ UNCHANGED importVars
       ELSE /\ listing < MaxListing
            /\ listing' = listing + 1
            /\ UNCHANGED <<importProgressTracker, pipes, stoppedPipes, stopAccepted, lastResp>>
    /\ UNCHANGED <<phoneVars, storeVars, blacklistVars>>

\* startImport after getImportFiles returned n files (controller lines 30-51):
\* 404 on an empty listing; otherwise reset, mark running, and run
\* processFiles up to its first suspension, inside processFile of file 1.
StartImportResume(n) ==
    /\ listing > 0
    /\ listing' = listing - 1
    /\ IF n = 0
       THEN /\ lastResp' = [op |-> "startImport", status |-> 404]
            /\ UNCHANGED <<importProgressTracker, pipes, stoppedPipes, stopAccepted>>
       ELSE /\ Len(pipes) < MaxPipelines
            /\ importProgressTracker' =
                  ProcessFileReset(
                      setImportRunning(resetImportProgress(importProgressTracker), TRUE), 1)
            /\ pipes' = Append(pipes, NewPipe(n))
            /\ stopAccepted' = FALSE
            /\ stoppedPipes' = stoppedPipes
            /\ lastResp' = [op |-> "startImport", status |-> 200]
    /\ UNCHANGED <<phoneVars, storeVars, blacklistVars>>

\* The readable handler accepted enough rows to fill PARALLEL_BATCHES batches
\* and suspends on processBatchesInParallel (service lines 405-421).
FlushBegin(p) ==
    /\ pipes[p].pc = "streaming"
    /\ pipes[p].flushes < MaxFlushes
    /\ pipes' = [pipes EXCEPT ![p].pc = "flushing", ![p].flushes = @ + 1,
                              ![p].processed = @ + 1]
    /\ importProgressTracker' =
          [importProgressTracker EXCEPT !.processed = pipes[p].processed + 1]
    /\ UNCHANGED <<listing, stoppedPipes, stopAccepted, lastResp>>
    /\ UNCHANGED <<phoneVars, storeVars, blacklistVars>>

\* The store call of a mid-stream flush returns (service lines 152-168,
\* 211-217, 429-443).  On failure insertBatch records the error and rethrows,
\* and the readable handler's catch records a skipped line.
FlushEnd(p, ok) ==
    /\ pipes[p].pc = "flushing"
    /\ IF ok
       THEN /\ importProgressTracker' =
                  [importProgressTracker EXCEPT !.upserted = @ + 1,
                                                !.processed = pipes[p].processed]
            /\ pipes' = [pipes EXCEPT ![p].pc = "streaming"]
       ELSE /\ importProgressTracker' =
                  [importProgressTracker EXCEPT
                      !.errors = @ \o <<InsertBatchError, SkippedMalformed>>]
            /\ pipes' = [pipes EXCEPT ![p].pc = "streaming", ![p].skippedLines = @ + 1]
    /\ UNCHANGED <<listing, stoppedPipes, stopAccepted, lastResp>>
    /\ UNCHANGED <<phoneVars, storeVars, blacklistVars>>

\* The parser's error event (service lines 474-487): the entry is recorded and
\* the promise is left unsettled.  The stream either goes on to its end event or
\* never emits one (csv-parse destroys the stream): both are kept.
ParserError(p, goesOn) ==
    /\ pipes[p].pc = "streaming"
    /\ pipes[p].skippedLines = 0
    /\ importProgressTracker' =
          [importProgressTracker EXCEPT !.errors = Append(@, CsvParsingError)]
    /\ pipes' = [pipes EXCEPT ![p].pc = IF goesOn THEN "streaming" ELSE "hung",
                              ![p].skippedLines = @ + 1]
    /\ UNCHANGED <<listing, stoppedPipes, stopAccepted, lastResp>>
    /\ UNCHANGED <<phoneVars, storeVars, blacklistVars>>

\* The end event: the handler pushes the remaining rows and suspends on the
\* final processBatchesInParallel / moveCompletedFile (service lines 447-466).
EndBegin(p) ==
    /\ pipes[p].pc = "streaming"
    /\ pipes' = [pipes EXCEPT ![p].pc = "ending", ![p].processed = @ + 1]
    /\ importProgressTracker' =
          [importProgressTracker EXCEPT !.processed = pipes[p].processed + 1]
    /\ UNCHANGED <<listing, stoppedPipes, stopAccepted, lastResp>>
    /\ UNCHANGED <<phoneVars, storeVars, blacklistVars>>

\* The record when processFile settles (service lines 454-470).
AtSettle(t, p, outcome) ==
    CASE outcome = "flushFailed" ->
            [t EXCEPT !.errors = Append(@, InsertBatchError)]
      [] outcome = "moveFailed" ->
            [t EXCEPT !.upserted = @ + 1, !.processed = pipes[p].processed,
                      !.errors = IF pipes[p].skippedLines > 0
                                 THEN Append(@, SkippedSummary) ELSE @]
      [] OTHER ->
            [t EXCEPT !.upserted = @ + 1, !.processed = pipes[p].processed,
                      !.errors = IF pipes[p].skippedLines > 0
                                 THEN Append(@, SkippedSummary) ELSE @,
                      !.isComplete = TRUE]

\* processFiles after the await of processFile (controller lines 69-98):
\* TRUE when the loop is left by break.
LoopBreaks(t, outcome) ==
    /\ outcome = "resolved"
    /\ t.isComplete /\ Len(t.errors) > 0
    /\ hasFatalErrors(t.errors) = "true"

\* processFiles after its loop (controller lines 101-111): isComplete and
\* currentFile are assigned on the copy getImportProgress returned, so the
\* record only loses isRunning.
ProcessFilesEpilogue(t) == setImportRunning(t, FALSE)

\* processFile settles and processFiles runs on to its next suspension: the
\* next file's processFile, or the end of the run.
FileEnd(p, outcome) ==
    /\ pipes[p].pc = "ending"
    /\ LET t1 == AtSettle(importProgressTracker, p, outcome)
           last == pipes[p].i = pipes[p].files \/ LoopBreaks(t1, outcome)
       IN IF last
          THEN /\ importProgressTracker' = ProcessFilesEpilogue(t1)
               /\ pipes' = [pipes EXCEPT ![p].pc = "done"]
          ELSE /\ importProgressTracker' = ProcessFileReset(t1, pipes[p].i + 1)
               /\ pipes' = [pipes EXCEPT ![p] =
                               [NewPipe(pipes[p].files) EXCEPT !.i = pipes[p].i + 1]]
    /\ UNCHANGED <<listing, stoppedPipes, stopAccepted, lastResp>>
    /\ UNCHANGED <<phoneVars, storeVars, blacklistVars>>

\* stopImport (controller lines 525-553).
StopImport ==
    /\ IF NoImportRunning(importProgressTracker)
       THEN /\ lastResp' = [op |-> "stopImport", status |-> 400]
            /\ UNCHANGED importVars
       ELSE /\ importProgressTracker' =
                  MarkCompleteOnCopy(setImportRunning(importProgressTracker, FALSE),
                                     StoppedByUser)
            /\ stopAccepted' = TRUE
            /\ stoppedPipes' = stoppedPipes \cup ActivePipes
            /\ lastResp' = [op |-> "stopImport", status |-> 200]
            /\ UNCHANGED <<pipes, listing>>
    /\ UNCHANGED <<phoneVars, storeVars, blacklistVars>>

\* ------------------------------------------------------------- phone run
Runs == 1..MaxRuns

\* initialProgress of updatePhoneNumber (controller lines 359-371).
InitialPhoneProgress(n) ==
    [currentFile |-> 0, processed |-> 0, total |-> 0, updated |-> 0, created |-> 0,
     errors |-> <<>>, isComplete |-> FALSE, totalFiles |-> n, completedFiles |-> 0,
     lastUpdated |-> now]

\* processPhoneFile's synchronous prologue (service lines 909-912).
ProcessPhoneFileReset(t, file) ==
    [t EXCEPT !.currentFile = file, !.isComplete = FALSE]

\* "Check if all files are completed" (service lines 1077-1084, 1102-1109).
MarkFileCompleted(t) ==
    LET c == t.completedFiles + 1
    IN IF c >= t.totalFiles
       THEN [t EXCEPT !.completedFiles = c, !.isComplete = TRUE, !.currentFile = 0]
       ELSE [t EXCEPT !.completedFiles = c]

\* updateProgressTracker (service lines 1259-1265): Object.assign of the
\* record onto itself, plus the timestamp.
updateProgressTracker(t) == [t EXCEPT !.lastUpdated = now]

\* The delay of the cleanup timer, in hours (service lines 1086-1092).
CleanupDelay == 1

\* "Schedule cleanup of this progress tracker after 1 hour" (service lines
\* 1080-1093, 1105-1118): set where the file count reaches totalFiles.
ScheduleCleanup(t, r) ==
    IF t.completedFiles + 1 >= t.totalFiles
    THEN timers \cup {[id |-> r, due |-> now + CleanupDelay]}
    ELSE timers

\* getPhoneProgress (service lines 1239-1242): a shallow copy.  The scalar
\* fields are copied; the errors property of the copy is the very array of the
\* record, which errorsOf names.
getPhoneProgress(t, r) == [copy |-> t, errorsOf |-> r]

\* What the holder of a copy reads from it: its own scalars and the present
\* content of the shared errors array.
ReadCopy(c) == [c.copy EXCEPT !.errors = phoneProgressStore[c.errorsOf].errors]

\* updatePhoneNumber (controller lines 348-399): 404 on an empty listing;
\* otherwise a new processId, its progress record, and processPhoneFiles run up
\* to its first suspension, inside processPhoneFile of file 1.
UpdatePhoneNumber(n) ==
    /\ IF n = 0
       THEN /\ lastResp' = [op |-> "updatePhoneNumber", status |-> 404]
            /\ UNCHANGED phoneVars
       ELSE LET r == Cardinality(DOMAIN phoneRuns) + 1
            IN /\ r \in Runs
               /\ phoneProgressStore' =
                     (r :> ProcessPhoneFileReset(InitialPhoneProgress(n), 1)) @@ phoneProgressStore
               /\ phoneRuns' = (r :> [files |-> n, i |-> 1, pc |-> "streaming", orphans |-> 0])
                                  @@ phoneRuns
               /\ snapshots' = (r :> getPhoneProgress(InitialPhoneProgress(n), r))
                                  @@ snapshots
               /\ UNCHANGED <<stoppedRuns, timers>>
               /\ lastResp' = [op |-> "updatePhoneNumber", status |-> 200]
    /\ UNCHANGED <<importVars, storeVars, blacklistVars>>

\* The end event of a phone file: the timeout is cleared and the handler
\* suspends on processPhoneBatch / archiveFile (service lines 1042-1074).
PhoneEndBegin(r) ==
    /\ r \in DOMAIN phoneRuns
    /\ phoneRuns[r].pc = "streaming"
    /\ phoneRuns' = [phoneRuns EXCEPT ![r].pc = "ending"]
    /\ phoneProgressStore' = [phoneProgressStore EXCEPT ![r].processed = @ + 1]
    /\ UNCHANGED <<stoppedRuns, lastResp, snapshots, timers>>
    /\ UNCHANGED <<importVars, storeVars, blacklistVars>>

\* processPhoneFiles after the await of processPhoneFile (controller lines
\* 420-459): the next file's prologue, or the end of the run, where isComplete
\* is assigned on the copy getPhoneProgress returned.
PhoneContinue(t, r, rejected) ==
    LET t1 == IF rejected THEN [t EXCEPT !.errors = Append(@, PhoneFileFailed)] ELSE t
    IN IF phoneRuns[r].i = phoneRuns[r].files
       THEN t1
       ELSE ProcessPhoneFileReset(t1, phoneRuns[r].i + 1)

PhoneAdvance(run) ==
    IF run.i = run.files THEN [run EXCEPT !.pc = "done"]
    ELSE [run EXCEPT !.i = @ + 1, !.pc = "streaming"]

\* The end handler finishes (service lines 1076-1124) and processPhoneFiles
\* runs on to its next suspension.
PhoneFileEnd(r, rejected) ==
    /\ r \in DOMAIN phoneRuns
    /\ phoneRuns[r].pc = "ending"
    /\ LET t0 == phoneProgressStore[r]
           t1 == IF rejected THEN t0 ELSE [t0 EXCEPT !.updated = @ + 1]
       IN /\ phoneProgressStore' =
                [phoneProgressStore EXCEPT ![r] =
                    PhoneContinue(updateProgressTracker(MarkFileCompleted(t1)), r, rejected)]
          /\ timers' = ScheduleCleanup(t1, r)
    /\ phoneRuns' = [phoneRuns EXCEPT ![r] = PhoneAdvance(@)]
    /\ UNCHANGED <<stoppedRuns, lastResp, snapshots>>
    /\ UNCHANGED <<importVars, storeVars, blacklistVars>>

\* The five-minute timer fires before the end event (service lines 924-931):
\* the promise is rejected, the stream itself is left running.
PhoneTimeout(r) ==
    /\ r \in DOMAIN phoneRuns
    /\ phoneRuns[r].pc = "streaming"
    /\ LET t0 == phoneProgressStore[r]
           t1 == [t0 EXCEPT !.errors = Append(@, PhoneTimeoutMsg),
                            !.completedFiles = @ + 1]
       IN phoneProgressStore' = [phoneProgressStore EXCEPT ![r] = PhoneContinue(t1, r, TRUE)]
    /\ phoneRuns' = [phoneRuns EXCEPT ![r] = [PhoneAdvance(@) EXCEPT !.orphans = @ + 1]]
    /\ UNCHANGED <<stoppedRuns, lastResp, snapshots, timers>>
    /\ UNCHANGED <<importVars, storeVars, blacklistVars>>

\* The end handler of a stream whose promise the timeout already rejected
\* (service lines 1042-1098): it still counts the file.
OrphanEnd(r) ==
    /\ r \in DOMAIN phoneRuns
    /\ phoneRuns[r].orphans > 0
    /\ phoneRuns' = [phoneRuns EXCEPT ![r].orphans = @ - 1]
    /\ phoneProgressStore' =
          [phoneProgressStore EXCEPT ![r] =
              updateProgressTracker(MarkFileCompleted([@ EXCEPT !.updated = @ + 1]))]
    /\ timers' = ScheduleCleanup(phoneProgressStore[r], r)
    /\ UNCHANGED <<stoppedRuns, lastResp, snapshots>>
    /\ UNCHANGED <<importVars, storeVars, blacklistVars>>

\* stopPhoneProcessing (controller lines 555-593): the copy is written back
\* by updateProgressTracker (service lines 1259-1265).
StopPhoneProcessing(r) ==
    /\ IF r \notin DOMAIN phoneProgressStore
       THEN /\ lastResp' = [op |-> "stopPhoneProcessing", status |-> 404]
            /\ UNCHANGED phoneVars
       ELSE IF phoneProgressStore[r].isComplete
       THEN /\ lastResp' = [op |-> "stopPhoneProcessing", status |-> 400]
            /\ UNCHANGED phoneVars
       ELSE /\ phoneProgressStore' =
                  [phoneProgressStore EXCEPT ![r].isComplete = TRUE,
                                             ![r].currentFile = 0,
                                             ![r].errors = Append(@, PhoneStoppedByUser),
                                             ![r].lastUpdated = now]
            /\ stoppedRuns' = stoppedRuns \cup {r}
            /\ UNCHANGED <<phoneRuns, snapshots, timers>>
            /\ lastResp' = [op |-> "stopPhoneProcessing", status |-> 200]
    /\ UNCHANGED <<importVars, storeVars, blacklistVars>>

\* ----------------------------------------------------- stored documents
\* The scalar attributes of socialScrapeSchema (models/SocialScrape.js 7-19).
ScalarFields ==
    {"title", "twitter", "facebook", "instagram", "linkedin", "youtube", "pinterest",
     "email", "postcode", "statusCode", "redirect_url", "meta_description"}

\* A stored document.  A scalar attribute that is absent and one that holds ''
\* are both written "": no claim tells them apart.  _id is the position in
\* store (documents are never deleted).
NewDoc(url, date) ==
    [url |-> url, date |-> date, f |-> [g \in ScalarFields |-> ""],
     phone |-> <<>>, is_blacklisted |-> FALSE]

\* The code -> attribute dispatch of processRecord (service lines 325-363).
CodeField ==
    [c \in {"[TI]", "[SC]", "[ER]", "[PC]", "[EM]", "[TW]", "[FB]", "[LK]", "[PT]",
            "[YT]", "[IS]", "[RD]", "[MD]"} |->
        CASE c = "[TI]" -> "title"
          [] c \in {"[SC]", "[ER]"} -> "statusCode"
          [] c = "[PC]" -> "postcode"
          [] c = "[EM]" -> "email"
          [] c = "[TW]" -> "twitter"
          [] c = "[FB]" -> "facebook"
          [] c = "[LK]" -> "linkedin"
          [] c = "[PT]" -> "pinterest"
          [] c = "[YT]" -> "youtube"
          [] c = "[IS]" -> "instagram"
          [] c = "[RD]" -> "redirect_url"
          [] OTHER -> "meta_description"]

\* new Date(DATE.split('/').reverse().join('-')): a date is its day number,
\* counted from 1; a missing or unparsable DATE gives Invalid Date, written 0.
InvalidDate == 0

\* processRecord (service lines 298-366) for a row whose first column is a
\* valid domain: the row contributes url, date and at most one attribute, set
\* to the cleaned RESULT (which may be '').  The cleaners leave the values
\* used here as they are.
processRecord(row) ==
    [url |-> row.url, date |-> row.date,
     fields |-> IF row.code \in DOMAIN CodeField
                THEN [g \in {CodeField[row.code]} |-> row.result]
                ELSE [g \in {} |-> ""],
     hasPhone |-> FALSE, phone |-> <<>>]

\* `${doc.url}_${doc.date.toISOString().split('T')[0]}` (service line 127).
GroupKey(doc) == <<doc.url, doc.date>>

\* The Map urlDateGroups (service lines 124-132): the distinct keys of the
\* batch in first-appearance order.
RECURSIVE GroupKeys(_)
GroupKeys(batch) ==
    IF batch = <<>> THEN <<>>
    ELSE LET rest == GroupKeys(SubSeq(batch, 1, Len(batch) - 1))
             k == GroupKey(batch[Len(batch)])
         IN IF \E j \in 1..Len(rest) : rest[j] = k THEN rest ELSE Append(rest, k)

\* The docs of one group, in arrival order.
GroupDocs(batch, key) == SelectSeq(batch, LAMBDA d : GroupKey(d) = key)

\* The first non-empty value of attribute g over docs ('' when there is none):
\* if (doc.g && !mergedDoc.g) mergedDoc.g = doc.g  (service lines 247-259).
RECURSIVE FirstNonEmpty(_, _)
FirstNonEmpty(docs, g) ==
    IF docs = <<>> THEN ""
    ELSE IF g \in DOMAIN Head(docs).fields /\ Head(docs).fields[g] # ""
    THEN Head(docs).fields[g]
    ELSE FirstNonEmpty(Tail(docs), g)

\* [...new Set([...a, ...b])]: b appended to a, first occurrences kept.
RECURSIVE Dedupe(_)
Dedupe(s) ==
    IF s = <<>> THEN <<>>
    ELSE LET rest == Dedupe(SubSeq(s, 1, Len(s) - 1))
             x == s[Len(s)]
         IN IF \E j \in 1..Len(rest) : rest[j] = x THEN rest ELSE Append(rest, x)

\* phones.slice(0, 3)
Slice3(s) == SubSeq(s, 1, IF Len(s) < 3 THEN Len(s) ELSE 3)

RECURSIVE MergedPhones(_)
MergedPhones(docs) ==
    IF docs = <<>> THEN <<>>
    ELSE LET rest == MergedPhones(SubSeq(docs, 1, Len(docs) - 1))
             d == docs[Len(docs)]
         IN IF d.hasPhone THEN Dedupe(rest \o d.phone) ELSE rest

\* mergeRecordsForSameUrlDate (service lines 222-268): one doc is returned as
\* it is; several are folded into a doc that carries every attribute.
mergeRecordsForSameUrlDate(docs) ==
    IF Len(docs) = 1 THEN docs[1]
    ELSE [url |-> docs[1].url, date |-> docs[1].date,
          fields |-> [g \in ScalarFields |-> FirstNonEmpty(docs, g)],
          hasPhone |-> TRUE, phone |-> MergedPhones(docs)]

\* The updateOne operations of insertBatch, one per group (service lines 135-147).
Operations(batch) ==
    LET keys == GroupKeys(batch)
    IN [j \in 1..Len(keys) |-> mergeRecordsForSameUrlDate(GroupDocs(batch, keys[j]))]

\* ------------------------------------------------------------ the store
\* The position of the first document matching { url, date }, 0 if none.
\* The RESULT values processRecord looks for (service line 308).
Sentinels == {"Fetch error or no data found", "not required"}

\* hasOtherData (service lines 310-312): some column other than RESULT holds
\* a non-blank value.  The columns are those of the header: the url column,
\* DATE, CODE and RESULT; an empty DATE column reads as InvalidDate here.
hasOtherData(row) == row.url # "" \/ row.date # InvalidDate \/ row.code # ""

\* processRecord returns null for a sentinel row without other data (service
\* lines 307-317).
processRecordSkips(row) == row.result \in Sentinels /\ ~hasOtherData(row)

FindUrlDate(s, url, date) ==
    IF \E k \in 1..Len(s) : s[k].url = url /\ s[k].date = date
    THEN CHOOSE k \in 1..Len(s) :
            /\ s[k].url = url /\ s[k].date = date
            /\ \A j \in 1..(k - 1) : ~(s[j].url = url /\ s[j].date = date)
    ELSE 0

\* { $set: m } that also writes the schema default of is_blacklisted.
ApplySet_WithDefaults(doc, m) ==
    [doc EXCEPT !.f = [g \in ScalarFields |->
                          IF g \in DOMAIN m.fields THEN m.fields[g] ELSE doc.f[g]],
                !.phone = IF m.hasPhone THEN m.phone ELSE @,
                !.is_blacklisted = FALSE]

\* { $set: m } applied to a stored document.
ApplySet(doc, m) ==
    [doc EXCEPT !.f = [g \in ScalarFields |->
                          IF g \in DOMAIN m.fields THEN m.fields[g] ELSE doc.f[g]],
                !.phone = IF m.hasPhone THEN m.phone ELSE @]

\* An upsert whose filter is the url alone.
UpsertOne_ByUrl(s, m) ==
    LET ks == {j \in 1..Len(s) : s[j].url = m.url}
        k == IF ks = {} THEN 0 ELSE CHOOSE j \in ks : \A i \in ks : j <= i
    IN IF k = 0 THEN Append(s, ApplySet(NewDoc(m.url, m.date), m))
       ELSE [s EXCEPT ![k] = [ApplySet(@, m) EXCEPT !.date = m.date]]

\* updateOne({ url, date }, { $set: m }, { upsert: true }).
UpsertOne(s, m) ==
    LET k == FindUrlDate(s, m.url, m.date)
    IN IF k = 0 THEN Append(s, ApplySet(NewDoc(m.url, m.date), m))
       ELSE [s EXCEPT ![k] = ApplySet(@, m)]

\* The operations ops[from..] applied in order, leaving out position skip.
RECURSIVE ApplyOps(_, _, _)
ApplyOps(s, ops, skip) ==
    IF ops = <<>> THEN s
    ELSE LET n == Len(ops)
             before == ApplyOps(s, SubSeq(ops, 1, n - 1), skip)
         IN IF n = skip THEN before ELSE UpsertOne(before, ops[n])

\* How many of ops find no document to update (result.upsertedCount).  The
\* other operations count in result.modifiedCount: the schema has timestamps
\* (models/SocialScrape.js line 21), so Model.bulkWrite adds updatedAt to every
\* $set and a matched document is modified whatever the rest of the $set.
RECURSIVE UpsertedCount(_, _)
UpsertedCount(s, ops) ==
    IF ops = <<>> THEN 0
    ELSE LET n == Len(ops)
             before == ApplyOps(s, SubSeq(ops, 1, n - 1), 0)
         IN UpsertedCount(s, SubSeq(ops, 1, n - 1))
            + (IF FindUrlDate(before, ops[n].url, ops[n].date) = 0 THEN 1 ELSE 0)

\* ------------------------------------------------------- file ingestion
PARALLEL_BATCHES == 2

\* One invocation of the async 'readable' or 'end' listener.  It runs until
\* its first await and is resumed by later turns of the event loop.
\* An invocation that has returned is dropped.  An invocation is at
\*   run     executing synchronously (it holds the event loop),
\*   insert  awaiting insertBatch of batch idx of the array arr it flushes,
\*   pause   awaiting the 100 ms delay of processBatchesInParallel,
\*   after   awaiting the delay after its flush / moveCompletedFile,
\*   find    awaiting SocialScrape.find for the map entry cur,
\*   write   awaiting the updateOne / create calls for that entry.
NewHandler(kind) ==
    [kind |-> kind, pc |-> "run", arr |-> 0, idx |-> 0, processed |-> 0,
     own |-> <<>>, it |-> 0, cur |-> 0, phones |-> <<>>, found |-> <<>>]

\* The invocations still to return, once invocation h has returned.
Returned(handlers, h) ==
    SubSeq(handlers, 1, h - 1) \o SubSeq(handlers, h + 1, Len(handlers))

\* The parser stream and the closure of one processFile / processPhoneFile
\* invocation: rows pushed into the readable buffer (arrived) and read off it
\* (pos), end of input (ended), listener calls due on the next tick (ticks),
\* the invocation that is executing (turn), and the locals the listeners
\* share.  arrays holds every array that batches has referred to; batches is
\* the index of the one it refers to now.  urlPhoneMap keeps the entries of
\* the Map in insertion order; clear() empties the Map but not the Sets its
\* entries held, which a filtered Map may still refer to.
NewIngest ==
    [arrived |-> 0, pos |-> 0, ended |-> FALSE, endEmitted |-> FALSE,
     ticks |-> <<>>, turn |-> 0, handlers |-> <<>>, settled |-> "no",
     processed |-> 0, skippedLines |-> 0, currentBatch |-> <<>>,
     arrays |-> << <<>> >>, batches |-> 1,
     urlPhoneMap |-> <<>>, urlCountMap |-> <<>>]

\* History: the pass over the file, the store before the first pass and after
\* it, the store faults injected so far, the batches of the flush whose
\* insertBatch ran last, the last failed bulkWrite, and of the insertBatch that
\* ran last the outcome of its bulkWrite, the operations it sent and how many
\* of them the store applied.
NewHist(s) ==
    [pass |-> 1, store0 |-> s, afterFirst |-> <<>>, faults |-> 0, incoming |-> <<>>,
     lastInsert |-> [bulk |-> "none", groups |-> 0, individual |-> 0, returned |-> TRUE],
     flush |-> [bulk |-> "none", groups |-> 0, accepted |-> 0]]

NoFault == [code |-> "none", skip |-> 0]

\* insertBatch (service lines 121-219) under a bulkWrite that succeeds
\* (fault.code = "none"), fails with code 11000 after applying every operation
\* but fault.skip (ordered: false), or fails otherwise before applying any.
\* A doc with an Invalid Date makes toISOString throw before any store call.
\* In the catch block urlDateGroups, a const of the try block, is out of
\* scope: the code 11000 branch throws a ReferenceError at line 178, before
\* any individual upsert and before errors.push.
insertBatch(s, t, batch, processed, fault) ==
    IF \E j \in 1..Len(batch) : batch[j].date = InvalidDate
    THEN [store |-> s, t |-> [t EXCEPT !.errors = Append(@, InsertBatchError)],
          threw |-> TRUE, bulk |-> "none", groups |-> 0]
    ELSE LET ops == Operations(batch)
             up == UpsertedCount(s, ops)
         IN CASE fault.code = "none" ->
                   [store |-> ApplyOps(s, ops, 0),
                    t |-> [t EXCEPT !.upserted = @ + up,
                                    !.modified = @ + (Len(ops) - up),
                                    !.processed = processed],
                    threw |-> FALSE, bulk |-> "ok", groups |-> Len(ops)]
              [] fault.code = "11000" ->
                   [store |-> ApplyOps(s, ops, fault.skip), t |-> t,
                    threw |-> TRUE, bulk |-> "11000", groups |-> Len(ops)]
              [] OTHER ->
                   [store |-> s, t |-> [t EXCEPT !.errors = Append(@, InsertBatchError)],
                    threw |-> TRUE, bulk |-> "error", groups |-> Len(ops)]

\* The faults the store may inject into a bulkWrite: none, or, while fewer
\* than MaxFaults were injected, a failure.
Faults ==
    {NoFault} \cup
    (IF hist.faults < MaxFaults
     THEN {[code |-> c, skip |-> k] : c \in {"11000", "error"}, k \in 1..MaxBatchSize}
     ELSE {})

\* A fault is well-formed if the operation it rejects exists.
FaultFits(batch, fault) ==
    IF fault.code = "none" THEN TRUE
    ELSE /\ \A j \in 1..Len(batch) : batch[j].date # InvalidDate
         /\ IF fault.code = "11000"
            THEN fault.skip <= Len(Operations(batch))
            ELSE fault.skip = 1

NoteFlush(h, r, fault, incoming) ==
    [h EXCEPT !.faults = IF fault.code = "none" THEN @ ELSE @ + 1,
              !.incoming = incoming,
              !.flush = [bulk |-> r.bulk, groups |-> r.groups,
                         accepted |-> CASE r.bulk = "ok" -> r.groups
                                        [] r.bulk = "11000" -> r.groups - 1
                                        [] OTHER -> 0],
              !.lastInsert = IF r.bulk \in {"11000", "error"}
                             THEN [bulk |-> r.bulk, groups |-> r.groups,
                                   individual |-> 0, returned |-> ~r.threw]
                             ELSE @]

\* The event loop is between callbacks and no listener call is due.
Idle == ingest.turn = 0 /\ ingest.ticks = <<>>

\* Every listener invocation has returned and the promise of the file is
\* settled.
Quiescent ==
    /\ Idle
    /\ ingest.settled # "no"
    /\ ingest.handlers = <<>>

\* A parser.read() that leaves the buffer of an ended stream empty schedules
\* 'end' for the next tick, once.
endReadable(g) ==
    IF g.ended /\ g.pos = g.arrived /\ ~g.endEmitted
       /\ ~(\E j \in 1..Len(g.ticks) : g.ticks[j] = "end")
    THEN [g EXCEPT !.ticks = Append(@, "end")]
    ELSE g

\* fs.createReadStream(filePath).pipe(parser) (service lines 490-491): a chunk
\* of the file reaches the parser, which pushes its n rows; 'readable' is
\* emitted on the next tick.  The parser (highWaterMark 1024 * 1024 records)
\* takes chunks whether or not a listener invocation is suspended.
Arrive(n) ==
    /\ input.kind # "none"
    /\ Idle
    /\ ~ingest.ended
    /\ ingest.arrived + n <= Len(input.rows)
    /\ ingest' = [ingest EXCEPT !.arrived = @ + n, !.ticks = <<"readable">>]
    /\ UNCHANGED <<store, now, BATCH_SIZE, input, hist>>
    /\ UNCHANGED <<coordVars, importProgressTracker, phoneProgressStore>>

\* The file ends: the parser pushes a last row without line end, if any, and
\* the end of the stream, and emits 'readable'.
Eof ==
    /\ input.kind # "none"
    /\ Idle
    /\ ~ingest.ended
    /\ Len(input.rows) - ingest.arrived <= 1
    /\ ingest' = [ingest EXCEPT !.arrived = Len(input.rows), !.ended = TRUE,
                                !.ticks = <<"readable">>]
    /\ UNCHANGED <<store, now, BATCH_SIZE, input, hist>>
    /\ UNCHANGED <<coordVars, importProgressTracker, phoneProgressStore>>

\* parser.on('readable', async () => ...) is called (service lines 405, 960):
\* a new invocation, whatever earlier invocations are suspended on.
StartReadable ==
    /\ ingest.turn = 0
    /\ ingest.ticks # <<>> /\ Head(ingest.ticks) = "readable"
    /\ ingest' = [ingest EXCEPT !.ticks = Tail(@),
                                !.handlers = Append(@, NewHandler("readable")),
                                !.turn = Len(ingest.handlers) + 1]
    /\ UNCHANGED <<store, now, BATCH_SIZE, input, hist>>
    /\ UNCHANGED <<coordVars, importProgressTracker, phoneProgressStore>>

\* parser.read() returns null (service lines 407, 962): the invocation returns.
ReadNull(h) ==
    /\ ingest.turn = h
    /\ ingest.handlers[h].pc = "run"
    /\ ingest.pos = ingest.arrived
    /\ ingest' = endReadable([ingest EXCEPT !.handlers = Returned(@, h), !.turn = 0])
    /\ UNCHANGED <<store, now, BATCH_SIZE, input, hist>>
    /\ UNCHANGED <<coordVars, importProgressTracker, phoneProgressStore>>

\* The readable listener of processFile takes one row (service lines 407-421):
\* the row joins currentBatch; a full currentBatch joins batches; with
\* PARALLEL_BATCHES batches waiting the invocation calls
\* processBatchesInParallel, which sends the first batch and suspends.
ReadRecord(h) ==
    /\ input.kind = "import"
    /\ ingest.turn = h
    /\ ingest.handlers[h].pc = "run"
    /\ ingest.pos < ingest.arrived
    /\ LET rec == processRecord(input.rows[ingest.pos + 1])
           cb == Append(ingest.currentBatch, rec)
           full == Len(cb) >= BATCH_SIZE
           bs == IF full THEN Append(ingest.arrays[ingest.batches], cb)
                 ELSE ingest.arrays[ingest.batches]
           flush == full /\ Len(bs) >= PARALLEL_BATCHES
       IN IF processRecordSkips(input.rows[ingest.pos + 1])
          THEN /\ ingest' = endReadable([ingest EXCEPT !.pos = @ + 1])
               /\ UNCHANGED importProgressTracker
          ELSE /\ ingest' = endReadable(
                     [ingest EXCEPT !.pos = @ + 1, !.processed = @ + 1,
                                    !.currentBatch = IF full THEN <<>> ELSE cb,
                                    !.arrays[ingest.batches] = bs,
                                    !.handlers[h] =
                                        IF flush
                                        THEN [@ EXCEPT !.pc = "insert", !.arr = ingest.batches,
                                                       !.idx = 1,
                                                       !.processed = ingest.processed + 1]
                                        ELSE @,
                                    !.turn = IF flush THEN 0 ELSE h])
               /\ importProgressTracker' =
                     [importProgressTracker EXCEPT !.processed = ingest.processed + 1]
    /\ UNCHANGED <<store, now, BATCH_SIZE, input, hist>>
    /\ UNCHANGED <<coordVars, phoneProgressStore>>

\* The bulkWrite of the batch an invocation awaits is answered (service lines
\* 106, 152-168).  When insertBatch throws, processBatchesInParallel rethrows:
\* the readable listener's catch counts a skipped line, reads one more row off
\* the parser and drops it, records the error and goes on reading (lines
\* 429-443), batches untouched; the end listener rejects the promise of the
\* file (line 470) and processFiles goes on to its epilogue.
InsertReply(h, fault) ==
    /\ input.kind = "import"
    /\ Idle
    /\ ingest.handlers[h].pc = "insert"
    /\ LET hd == ingest.handlers[h]
           batch == ingest.arrays[hd.arr][hd.idx]
           r == insertBatch(store, importProgressTracker, batch, hd.processed, fault)
       IN /\ FaultFits(batch, fault)
          /\ store' = r.store
          /\ hist' = NoteFlush(hist, r, fault, ingest.arrays[hd.arr])
          /\ IF ~r.threw
             THEN /\ ingest' = [ingest EXCEPT !.handlers[h].pc = "pause"]
                  /\ importProgressTracker' = r.t
             ELSE IF hd.kind = "readable"
             THEN /\ ingest' = endReadable(
                        [ingest EXCEPT !.skippedLines = @ + 1,
                                       !.pos = IF @ < ingest.arrived THEN @ + 1 ELSE @,
                                       !.handlers[h] = [NewHandler("readable") EXCEPT
                                                           !.pc = "run"],
                                       !.turn = h])
                  /\ importProgressTracker' =
                        [r.t EXCEPT !.errors = Append(@, SkippedMalformed)]
             ELSE /\ ingest' = [ingest EXCEPT !.handlers = Returned(@, h),
                                              !.settled = "rejected"]
                  /\ importProgressTracker' = ProcessFilesEpilogue(r.t)
    /\ UNCHANGED <<now, BATCH_SIZE, input>>
    /\ UNCHANGED <<coordVars, phoneProgressStore>>

\* The delay after a batch is over (service lines 105-112): for ... of looks
\* at the array as it is now and sends its next batch, or the loop is done.
\* Then the readable listener lets batches refer to a new empty array and
\* awaits its own delay (lines 422-425); the end listener pushes the summary
\* of skipped lines and awaits moveCompletedFile (lines 457-466).
PauseOver(h) ==
    /\ input.kind = "import"
    /\ Idle
    /\ ingest.handlers[h].pc = "pause"
    /\ LET hd == ingest.handlers[h]
       IN IF hd.idx < Len(ingest.arrays[hd.arr])
          THEN /\ ingest' = [ingest EXCEPT !.handlers[h] =
                                [@ EXCEPT !.pc = "insert", !.idx = @ + 1]]
               /\ UNCHANGED importProgressTracker
          ELSE IF hd.kind = "readable"
          THEN /\ ingest' = [ingest EXCEPT
                                !.handlers[h] = [NewHandler("readable") EXCEPT !.pc = "after"],
                                !.arrays = Append(@, <<>>),
                                !.batches = Len(ingest.arrays) + 1]
               /\ UNCHANGED importProgressTracker
          ELSE /\ ingest' = [ingest EXCEPT
                                !.handlers[h] = [NewHandler("end") EXCEPT !.pc = "after"]]
               /\ importProgressTracker' =
                     [importProgressTracker EXCEPT !.errors =
                         IF ingest.skippedLines > 0 THEN Append(@, SkippedSummary) ELSE @]
    /\ UNCHANGED <<store, now, BATCH_SIZE, input, hist>>
    /\ UNCHANGED <<coordVars, phoneProgressStore>>

\* The await after the flush is over: the readable listener goes on reading
\* (service line 407); the end listener marks the file complete and resolves
\* (lines 467-468), and processFiles goes on to its epilogue.
AfterOver(h) ==
    /\ input.kind = "import"
    /\ Idle
    /\ ingest.handlers[h].pc = "after"
    /\ IF ingest.handlers[h].kind = "readable"
       THEN /\ ingest' = [ingest EXCEPT !.handlers[h].pc = "run", !.turn = h]
            /\ UNCHANGED importProgressTracker
       ELSE /\ ingest' = [ingest EXCEPT !.handlers = Returned(@, h),
                                        !.settled = "resolved"]
            /\ importProgressTracker' =
                  ProcessFilesEpilogue([importProgressTracker EXCEPT !.isComplete = TRUE])
    /\ UNCHANGED <<store, now, BATCH_SIZE, input, hist>>
    /\ UNCHANGED <<coordVars, phoneProgressStore>>

\* parser.on('end', async () => ...) of processFile is called (service lines
\* 447-455): currentBatch, if not empty, joins batches, and a non-empty
\* batches is flushed.
EndOfFile ==
    /\ input.kind = "import"
    /\ ingest.turn = 0
    /\ ingest.ticks # <<>> /\ Head(ingest.ticks) = "end"
    /\ LET bs == IF ingest.currentBatch # <<>>
                 THEN Append(ingest.arrays[ingest.batches], ingest.currentBatch)
                 ELSE ingest.arrays[ingest.batches]
           hd == IF bs # <<>>
                 THEN [NewHandler("end") EXCEPT !.pc = "insert", !.arr = ingest.batches,
                                                !.idx = 1, !.processed = ingest.processed]
                 ELSE [NewHandler("end") EXCEPT !.pc = "after"]
       IN /\ ingest' = [ingest EXCEPT !.ticks = Tail(@), !.endEmitted = TRUE,
                                      !.arrays[ingest.batches] = bs,
                                      !.handlers = Append(@, hd)]
          /\ importProgressTracker' =
                [importProgressTracker EXCEPT !.errors =
                    IF bs = <<>> /\ ingest.skippedLines > 0
                    THEN Append(@, SkippedSummary) ELSE @]
    /\ UNCHANGED <<store, now, BATCH_SIZE, input, hist>>
    /\ UNCHANGED <<coordVars, phoneProgressStore>>

\* ------------------------------------------------------ phone ingestion
LimitedPhones == StringEntry("Limited phone numbers for URL")
SkippedUrl == StringEntry("Skipped URL - more than 3 rows")
ErrorProcessingUrl == StringEntry("Error processing URL")

\* SocialScrape.find({ url }): the positions of the documents with this url.
FindUrl(s, url) == {k \in 1..Len(s) : s[k].url = url}

UniqueIndexAllows_Absent(s, url, date) == TRUE

\* The unique index { url: 1, date: 1 } (models/SocialScrape.js line 25): an
\* insert of a second document with the same url and date is rejected.
UniqueIndexAllows(s, url, date) == FindUrlDate(s, url, date) = 0

\* [...new Set([...existingPhones, ...phones])].slice(0, 3)  (service lines
\* 1194-1198).
FinalPhones(existingPhones, phones) == Slice3(Dedupe(existingPhones \o phones))

\* urlPhoneMap.size and urlPhoneMap.has(url).
MapSize(m) == Cardinality({j \in 1..Len(m) : m[j].live})

MapHas(m, url) == \E j \in 1..Len(m) : m[j].live /\ m[j].url = url

\* urlPhoneMap.clear() (service line 1031).
MapClear(m) == [j \in 1..Len(m) |-> [m[j] EXCEPT !.live = FALSE]]

\* The entry a Map iterator standing at entry cur yields next (0: none):
\* entries added while it runs are visited, cleared ones are not.
NextLive(m, cur) ==
    LET c == {j \in (cur + 1)..Len(m) : m[j].live}
    IN IF c = {} THEN 0 ELSE CHOOSE j \in c : \A i \in c : j <= i

\* urlPhoneMap.get(url).add(phone), creating the Set first if the url is not
\* in the Map (service lines 1020-1023).
AddPhone(m, url, phone) ==
    IF MapHas(m, url)
    THEN [j \in 1..Len(m) |->
             IF m[j].live /\ m[j].url = url
             THEN [m[j] EXCEPT !.phones = Dedupe(Append(@, phone))]
             ELSE m[j]]
    ELSE Append(m, [url |-> url, phones |-> <<phone>>, live |-> TRUE])

\* urlCountMap.get(url) || 0
UrlCount(urlCountMap, url) ==
    IF \E j \in 1..Len(urlCountMap) : urlCountMap[j].url = url
    THEN (CHOOSE e \in {urlCountMap[j] : j \in 1..Len(urlCountMap)} : e.url = url).count
    ELSE 0

\* urlCountMap.set(url, (urlCountMap.get(url) || 0) + 1)  (service line 1002).
CountUrl(urlCountMap, url) ==
    IF \E j \in 1..Len(urlCountMap) : urlCountMap[j].url = url
    THEN [j \in 1..Len(urlCountMap) |->
             IF urlCountMap[j].url = url
             THEN [urlCountMap[j] EXCEPT !.count = @ + 1]
             ELSE urlCountMap[j]]
    ELSE Append(urlCountMap, [url |-> url, count |-> 1])

\* The process id of the current pass.
Pid == hist.pass

\* The head of one round of the loop of processPhoneBatch (service lines
\* 1173-1187): the phones of entry e are copied off its Set, cut to three
\* with an errors entry, and SocialScrape.find is sent.
BeginUrl(hd, t, m, e) ==
    [hd |-> [hd EXCEPT !.pc = "find", !.cur = e, !.phones = Slice3(m[e].phones),
                       !.found = <<>>,
                       !.it = IF hd.kind = "end" THEN @ + 1 ELSE @],
     t |-> IF Len(m[e].phones) > 3 THEN [t EXCEPT !.errors = Append(@, LimitedPhones)]
           ELSE t]

\* The entry the loop of processPhoneBatch takes next (0: none): the readable
\* listener iterates urlPhoneMap itself, the end listener its filtered Map.
NextEntry(hd, m) ==
    IF hd.kind = "end"
    THEN (IF hd.it < Len(hd.own) THEN hd.own[hd.it + 1] ELSE 0)
    ELSE NextLive(m, hd.cur)

\* The body of one round after find has answered (service lines 1191-1231):
\* every document found gets the union of the phones it had when found and the
\* new ones, cut to three; if none was found a document dated now is created,
\* and a rejected create is recorded in errors.
WritePhones(s, t, url, phones, found, date) ==
    IF DOMAIN found # {}
    THEN [store |-> [k \in 1..Len(s) |->
                        IF k \in DOMAIN found
                        THEN [s[k] EXCEPT !.phone = FinalPhones(found[k], phones)]
                        ELSE s[k]],
          t |-> [t EXCEPT !.updated = @ + 1]]
    ELSE IF UniqueIndexAllows(s, url, date)
    THEN [store |-> Append(s, [NewDoc(url, date) EXCEPT !.phone = phones]),
          t |-> [t EXCEPT !.created = @ + 1]]
    ELSE [store |-> s, t |-> [t EXCEPT !.errors = Append(@, ErrorProcessingUrl)]]

\* The readable listener of processPhoneFile takes one [PN] row whose url and
\* phone are valid (service lines 1001-1030); with BATCH_SIZE URLs in the Map
\* it calls processPhoneBatch on the Map, which suspends on its first find.
ReadPhoneRecord(h) ==
    /\ input.kind = "phone"
    /\ ingest.turn = h
    /\ ingest.handlers[h].pc = "run"
    /\ ingest.pos < ingest.arrived
    /\ LET row == input.rows[ingest.pos + 1]
           m == AddPhone(ingest.urlPhoneMap, row.url, row.result)
           t == [phoneProgressStore[Pid] EXCEPT !.processed = @ + 1]
           flush == MapSize(m) >= BATCH_SIZE
           b == BeginUrl(ingest.handlers[h], t, m, NextLive(m, 0))
       IN /\ ingest' = endReadable(
                [ingest EXCEPT !.pos = @ + 1,
                               !.urlCountMap = CountUrl(@, row.url),
                               !.urlPhoneMap = m,
                               !.handlers[h] = IF flush THEN b.hd ELSE @,
                               !.turn = IF flush THEN 0 ELSE h])
          /\ phoneProgressStore' =
                [phoneProgressStore EXCEPT ![Pid] = IF flush THEN b.t ELSE t]
    /\ UNCHANGED <<store, now, BATCH_SIZE, input, hist>>
    /\ UNCHANGED <<coordVars, importProgressTracker>>

\* SocialScrape.find({ url }) is answered (service line 1187) with the
\* documents of the url as they are stored now.
FindReply(h) ==
    /\ input.kind = "phone"
    /\ Idle
    /\ ingest.handlers[h].pc = "find"
    /\ LET url == ingest.urlPhoneMap[ingest.handlers[h].cur].url
       IN ingest' = [ingest EXCEPT !.handlers[h] =
                        [@ EXCEPT !.pc = "write",
                                  !.found = [k \in FindUrl(store, url) |-> store[k].phone]]]
    /\ UNCHANGED <<store, now, BATCH_SIZE, input, hist>>
    /\ UNCHANGED <<coordVars, importProgressTracker, phoneProgressStore>>

\* The updateOne calls or the create of one round are answered and the loop
\* goes on (service lines 1173, 1191-1224).  When the loop is done the
\* readable listener clears urlPhoneMap and goes on reading (lines 1031, 962);
\* the end listener archives the file, counts it and resolves (lines
\* 1064-1098).
WriteReply(h) ==
    /\ input.kind = "phone"
    /\ Idle
    /\ ingest.handlers[h].pc = "write"
    /\ LET hd == ingest.handlers[h]
           m == ingest.urlPhoneMap
           w == WritePhones(store, phoneProgressStore[Pid], m[hd.cur].url, hd.phones,
                            hd.found, now)
           e == NextEntry(hd, m)
           b == BeginUrl(hd, w.t, m, e)
       IN /\ store' = w.store
          /\ IF e # 0
             THEN /\ ingest' = [ingest EXCEPT !.handlers[h] = b.hd]
                  /\ phoneProgressStore' = [phoneProgressStore EXCEPT ![Pid] = b.t]
             ELSE IF hd.kind = "readable"
             THEN /\ ingest' = [ingest EXCEPT
                                   !.urlPhoneMap = MapClear(@),
                                   !.handlers[h] = NewHandler("readable"),
                                   !.turn = h]
                  /\ phoneProgressStore' = [phoneProgressStore EXCEPT ![Pid] = w.t]
             ELSE /\ ingest' = [ingest EXCEPT !.handlers = Returned(@, h),
                                              !.settled = "resolved"]
                  /\ phoneProgressStore' =
                        [phoneProgressStore EXCEPT ![Pid] =
                            updateProgressTracker(MarkFileCompleted(w.t))]
    /\ UNCHANGED <<now, BATCH_SIZE, input, hist>>
    /\ UNCHANGED <<coordVars, importProgressTracker>>

\* filteredUrlPhoneMap (service lines 1047-1057): the entries of urlPhoneMap,
\* from entry j on, whose url was seen on at most three rows.
RECURSIVE FilteredUrlPhoneMap(_, _, _)
FilteredUrlPhoneMap(m, urlCountMap, j) ==
    IF j > Len(m) THEN <<>>
    ELSE (IF m[j].live /\ UrlCount(urlCountMap, m[j].url) <= 3 THEN <<j>> ELSE <<>>)
         \o FilteredUrlPhoneMap(m, urlCountMap, j + 1)

RECURSIVE SkippedUrlErrors(_, _, _)
SkippedUrlErrors(m, urlCountMap, j) ==
    IF j > Len(m) THEN <<>>
    ELSE (IF m[j].live /\ UrlCount(urlCountMap, m[j].url) > 3 THEN <<SkippedUrl>> ELSE <<>>)
         \o SkippedUrlErrors(m, urlCountMap, j + 1)

\* parser.on('end', async () => ...) of processPhoneFile is called (service
\* lines 1042-1062): URLs seen on more than three rows are dropped with an
\* errors entry, the rest go through processPhoneBatch; with nothing left the
\* file is archived and counted.
PhoneEndOfFile ==
    /\ input.kind = "phone"
    /\ ingest.turn = 0
    /\ ingest.ticks # <<>> /\ Head(ingest.ticks) = "end"
    /\ LET m == ingest.urlPhoneMap
           own == FilteredUrlPhoneMap(m, ingest.urlCountMap, 1)
           t == [phoneProgressStore[Pid] EXCEPT !.errors =
                    @ \o SkippedUrlErrors(m, ingest.urlCountMap, 1)]
           b == BeginUrl([NewHandler("end") EXCEPT !.own = own], t, m, own[1])
       IN IF own # <<>>
          THEN /\ ingest' = [ingest EXCEPT !.ticks = Tail(@), !.endEmitted = TRUE,
                                           !.handlers = Append(@, b.hd)]
               /\ phoneProgressStore' = [phoneProgressStore EXCEPT ![Pid] = b.t]
          ELSE /\ ingest' = [ingest EXCEPT !.ticks = Tail(@), !.endEmitted = TRUE,
                                           !.settled = "resolved"]
               /\ phoneProgressStore' =
                     [phoneProgressStore EXCEPT ![Pid] =
                         updateProgressTracker(MarkFileCompleted(t))]
    /\ UNCHANGED <<store, now, BATCH_SIZE, input, hist>>
    /\ UNCHANGED <<coordVars, importProgressTracker>>

\* The same file content is put back and ingested again, once every listener
\* invocation of the first pass has returned: startImport / updatePhoneNumber
\* with a listing of that one file.
IngestAgain ==
    /\ Quiescent
    /\ hist.pass = 1
    /\ hist' = [hist EXCEPT !.pass = 2, !.afterFirst = store]
    /\ ingest' = NewIngest
    /\ IF input.kind = "import"
       THEN /\ importProgressTracker' =
                  ProcessFileReset(
                      setImportRunning(resetImportProgress(importProgressTracker), TRUE), 1)
            /\ UNCHANGED phoneProgressStore
       ELSE /\ phoneProgressStore' =
                  (2 :> ProcessPhoneFileReset(InitialPhoneProgress(1), 1)) @@ phoneProgressStore
            /\ UNCHANGED importProgressTracker
    /\ UNCHANGED <<store, now, BATCH_SIZE, input>>
    /\ UNCHANGED coordVars

\* ---------------------------------------------------------- specification
Init ==
    /\ importProgressTracker = InitialImportProgress
    /\ pipes = <<>>
    /\ listing = 0
    /\ phoneProgressStore = <<>>
    /\ phoneRuns = <<>>
    /\ lastResp = [op |-> "none", status |-> 0]
    /\ stoppedPipes = {}
    /\ stopAccepted = FALSE
    /\ stoppedRuns = {}
    /\ snapshots = <<>>
    /\ timers = {}
    /\ blacklistProgressStore = <<>>
    /\ blacklistRuns = <<>>
    /\ store = <<>>
    /\ now = 0
    /\ BATCH_SIZE = 1
    /\ input = [kind |-> "none", rows |-> <<>>]
    /\ ingest = NewIngest
    /\ hist = NewHist(<<>>)
    /\ clients = <<>>

\* The import run: startImport / stopImport requests and the processFiles
\* invocations they spawn.
Next ==
    \/ StartImportBegin
    \/ \E n \in 0..MaxFiles : StartImportResume(n)
    \/ \E p \in 1..Len(pipes) : FlushBegin(p)
    \/ \E p \in 1..Len(pipes), ok \in BOOLEAN : FlushEnd(p, ok)
    \/ \E p \in 1..Len(pipes), goesOn \in BOOLEAN : ParserError(p, goesOn)
    \/ \E p \in 1..Len(pipes) : EndBegin(p)
    \/ \E p \in 1..Len(pipes), outcome \in {"resolved", "flushFailed", "moveFailed"} :
          FileEnd(p, outcome)
    \/ StopImport

Spec == Init /\ [][Next]_vars

\* ------------------------------------------------- ingestion of one file
\* The rows an import file is drawn from: one domain, two dates, two codes and
\* RESULT empty or one of two values.
ImportRowSet ==
    [url : {"a.com"}, date : {1, 2}, code : {"[TI]", "[EM]"}, result : {"", "x", "y"}]

\* The [PN] rows a phone file is drawn from, url and phone already validated
\* and formatted.
PhoneRowSet ==
    [url : {"a.com", "b.org"}, date : {1}, code : {"[PN]"},
     result : {"p1", "p2", "p3"}]

\* The files of 1..MaxRows rows over a row set.
Files(rowSet) == UNION {[1..n -> rowSet] : n \in 1..MaxRows}

\* The collection before the file is ingested: empty, or holding the document
\* that an import of (a.com, 1, [TI], x) followed by a phone update of a.com
\* with p1 and p2 leaves.
StoredDoc ==
    [NewDoc("a.com", 1) EXCEPT !.f = [@ EXCEPT !["title"] = "x"],
                               !.phone = <<"p1", "p2">>]

InitStores == {<<>>, <<StoredDoc>>}

InitIngestWith(inputs) ==
    /\ input \in inputs
    /\ BATCH_SIZE \in 1..MaxBatchSize
    /\ store \in InitStores
    /\ now = 1
    /\ ingest = NewIngest
    /\ hist = NewHist(store)
    /\ importProgressTracker =
          IF input.kind = "import"
          THEN ProcessFileReset(
                   setImportRunning(resetImportProgress(InitialImportProgress), TRUE), 1)
          ELSE InitialImportProgress
    /\ phoneProgressStore =
          IF input.kind = "phone"
          THEN (1 :> ProcessPhoneFileReset(InitialPhoneProgress(1), 1))
          ELSE <<>>
    /\ pipes = <<>>
    /\ listing = 0
    /\ phoneRuns = <<>>
    /\ lastResp = [op |-> "none", status |-> 0]
    /\ stoppedPipes = {}
    /\ stopAccepted = FALSE
    /\ stoppedRuns = {}
    /\ snapshots = <<>>
    /\ timers = {}
    /\ blacklistProgressStore = <<>>
    /\ blacklistRuns = <<>>
    /\ clients = <<>>

InitIngest ==
    InitIngestWith({[kind |-> "import", rows |-> r] : r \in Files(ImportRowSet)}
                   \cup {[kind |-> "phone", rows |-> r] : r \in Files(PhoneRowSet)})

\* The clock new Date() reads moves on.
Tick ==
    /\ now < MaxClock
    /\ now' = now + 1
    /\ UNCHANGED <<store, clients, ingestVars>>
    /\ UNCHANGED <<importProgressTracker, pipes, listing, phoneProgressStore, phoneRuns,
                   lastResp, stoppedPipes, stopAccepted, stoppedRuns,
                   snapshots, timers, blacklistVars>>

\* One file, import or phone, ingested by one pipeline and then ingested again.
NextIngest ==
    \/ \E n \in 1..MaxRows : Arrive(n)
    \/ Eof
    \/ StartReadable
    \/ \E h \in 1..Len(ingest.handlers) : ReadNull(h)
    \/ \E h \in 1..Len(ingest.handlers) : ReadRecord(h)
    \/ \E h \in 1..Len(ingest.handlers), fault \in Faults : InsertReply(h, fault)
    \/ \E h \in 1..Len(ingest.handlers) : PauseOver(h)
    \/ \E h \in 1..Len(ingest.handlers) : AfterOver(h)
    \/ EndOfFile
    \/ \E h \in 1..Len(ingest.handlers) : ReadPhoneRecord(h)
    \/ \E h \in 1..Len(ingest.handlers) : FindReply(h)
    \/ \E h \in 1..Len(ingest.handlers) : WriteReply(h)
    \/ PhoneEndOfFile
    \/ IngestAgain
    \/ (input.kind = "phone" /\ Tick)

SpecIngest == InitIngest /\ [][NextIngest]_vars

\* The store processFile leaves when no flush fails and every batch reaches
\* insertBatch once, in the order it filled (service lines 405-455): the
\* accepted rows are cut into batches of batchSize in arrival order.
RECURSIVE ProcessFileStore(_, _, _)
ProcessFileStore(s, rows, batchSize) ==
    IF rows = <<>> THEN s
    ELSE LET n == IF Len(rows) < batchSize THEN Len(rows) ELSE batchSize
             batch == [j \in 1..n |-> processRecord(rows[j])]
         IN ProcessFileStore(ApplyOps(s, Operations(batch), 0),
                             SubSeq(rows, n + 1, Len(rows)), batchSize)

\* Rows of one identity that each set a different attribute.
PermCodes == <<"[TI]", "[EM]", "[TW]", "[FB]", "[LK]">>

PermRow(j) == [url |-> "a.com", date |-> 1, code |-> PermCodes[j], result |-> "x"]

\* The one-to-one sequences over a set.
Orderings(S) ==
    {q \in [1..Cardinality(S) -> S] : \A i, j \in 1..Cardinality(S) : q[i] = q[j] => i = j}

PermFiles ==
    UNION {Orderings({PermRow(j) : j \in J}) : J \in (SUBSET (1..MaxPermRows)) \ {{}}}

InitPerm == InitIngestWith({[kind |-> "import", rows |-> r] : r \in PermFiles})

NextPerm ==
    \/ Arrive(Len(input.rows))
    \/ Eof
    \/ StartReadable
    \/ \E h \in 1..Len(ingest.handlers) : ReadNull(h)
    \/ \E h \in 1..Len(ingest.handlers) : ReadRecord(h)
    \/ \E h \in 1..Len(ingest.handlers) : InsertReply(h, NoFault)
    \/ \E h \in 1..Len(ingest.handlers) : PauseOver(h)
    \/ \E h \in 1..Len(ingest.handlers) : AfterOver(h)
    \/ EndOfFile

\* An import file whose rows share one identity and each set a different
\* attribute, reaching the parser in one chunk and ingested without store
\* faults.
SpecPerm == InitPerm /\ [][NextPerm]_vars

\* ------------------------------------------- concurrent store callers
\* An import flush, a blacklist run and phone runs reach the collection
\* through separate store calls that the server interleaves.  A caller is one
\* such call sequence for one URL:
\*   import     the updateOne upsert of insertBatch (service lines 140-146),
\*   blacklist  the findOneAndUpdate upsert of processBlacklistFile
\*              (service lines 603-622),
\*   phone      find, then updateOne per document found or create
\*              (service lines 1187-1220).
\* An upsert matches and updates in one step; when nothing matches, its insert
\* is a later step, checked against the unique index.
ImportCaller(result) ==
    [kind |-> "import", url |-> "a.com", date |-> 1, phones |-> <<>>, result |-> result,
     pc |-> "start", stamp |-> 0, seen |-> <<>>, failed |-> FALSE]

BlacklistCaller ==
    [kind |-> "blacklist", url |-> "a.com", date |-> 0, phones |-> <<>>, result |-> "",
     pc |-> "start", stamp |-> 0, seen |-> <<>>, failed |-> FALSE]

PhoneCaller(phones) ==
    [kind |-> "phone", url |-> "a.com", date |-> 0, phones |-> phones, result |-> "",
     pc |-> "start", stamp |-> 0, seen |-> <<>>, failed |-> FALSE]

Callers ==
    {ImportCaller("x"), ImportCaller("y"), BlacklistCaller,
     PhoneCaller(<<"p1">>), PhoneCaller(<<"p2", "p3">>)}

StoreStep(c, caller, s) ==
    /\ clients' = [clients EXCEPT ![c] = caller]
    /\ store' = s
    /\ UNCHANGED <<now, ingestVars>>
    /\ UNCHANGED <<importProgressTracker, pipes, listing, phoneProgressStore, phoneRuns,
                   lastResp, stoppedPipes, stopAccepted, stoppedRuns,
                   snapshots, timers, blacklistVars>>

\* The document an import caller sets: processRecord of its [TI] row.
CallerDoc(cl) ==
    processRecord([url |-> cl.url, date |-> cl.date, code |-> "[TI]", result |-> cl.result])

\* The server matches the upsert filter { url, date }: a match is updated at
\* once, otherwise the insert is still to come.
ImportMatch(c) ==
    /\ clients[c].kind = "import" /\ clients[c].pc = "start"
    /\ LET cl == clients[c]
           k == FindUrlDate(store, cl.url, cl.date)
       IN IF k # 0
          THEN StoreStep(c, [cl EXCEPT !.pc = "done"],
                         [store EXCEPT ![k] = ApplySet(@, CallerDoc(cl))])
          ELSE StoreStep(c, [cl EXCEPT !.pc = "inserting"], store)

\* The insert of an upsert that matched nothing: rejected with code 11000 if
\* the identity has appeared meanwhile.
ImportInsert(c) ==
    /\ clients[c].kind = "import" /\ clients[c].pc = "inserting"
    /\ LET cl == clients[c]
       IN IF UniqueIndexAllows(store, cl.url, cl.date)
          THEN StoreStep(c, [cl EXCEPT !.pc = "done"],
                         Append(store, ApplySet(NewDoc(cl.url, cl.date), CallerDoc(cl))))
          ELSE StoreStep(c, [cl EXCEPT !.pc = "done", !.failed = TRUE], store)

\* processBlacklistFile builds its update, $setOnInsert: { url, date: new
\* Date() }, and sends it.
BlacklistSend(c) ==
    /\ clients[c].kind = "blacklist" /\ clients[c].pc = "start"
    /\ StoreStep(c, [clients[c] EXCEPT !.pc = "sent", !.stamp = now], store)

\* The server matches the filter { url }: the first document of the URL gets
\* is_blacklisted = true, otherwise the insert is still to come.
BlacklistMatch(c) ==
    /\ clients[c].kind = "blacklist" /\ clients[c].pc = "sent"
    /\ LET cl == clients[c]
           ks == FindUrl(store, cl.url)
       IN IF ks # {}
          THEN LET k == CHOOSE k \in ks : \A j \in ks : k <= j
               IN StoreStep(c, [cl EXCEPT !.pc = "done"],
                            [store EXCEPT ![k].is_blacklisted = TRUE])
          ELSE StoreStep(c, [cl EXCEPT !.pc = "inserting"], store)

BlacklistInsert(c) ==
    /\ clients[c].kind = "blacklist" /\ clients[c].pc = "inserting"
    /\ LET cl == clients[c]
       IN IF UniqueIndexAllows(store, cl.url, cl.stamp)
          THEN StoreStep(c, [cl EXCEPT !.pc = "done"],
                         Append(store, [NewDoc(cl.url, cl.stamp)
                                           EXCEPT !.is_blacklisted = TRUE]))
          ELSE StoreStep(c, [cl EXCEPT !.pc = "done", !.failed = TRUE], store)

\* SocialScrape.find({ url }) of processPhoneBatch is answered with the
\* documents as they are now; stamp is the instant of the answer.
PhoneFind(c) ==
    /\ clients[c].kind = "phone" /\ clients[c].pc = "start"
    /\ LET cl == clients[c]
           ks == FindUrl(store, cl.url)
           found == SelectSeq([k \in 1..Len(store) |-> [id |-> k, phone |-> store[k].phone]],
                              LAMBDA e : e.id \in ks)
       IN StoreStep(c, [cl EXCEPT !.pc = IF ks # {} THEN "updating" ELSE "creating",
                                  !.seen = found, !.stamp = now], store)

\* updateOne({ _id }, { $set: { phone: finalPhones } }) for the next document
\* found, finalPhones computed from the phones read by find.
PhoneUpdateOne(c) ==
    /\ clients[c].kind = "phone" /\ clients[c].pc = "updating"
    /\ LET cl == clients[c]
           e == Head(cl.seen)
       IN StoreStep(c, [cl EXCEPT !.seen = Tail(@),
                                  !.pc = IF Len(cl.seen) = 1 THEN "done" ELSE "updating"],
                    [store EXCEPT ![e.id].phone = FinalPhones(e.phone, Slice3(cl.phones))])

\* SocialScrape.create({ url, date: new Date(), phone }), the date read at
\* some instant since find was answered: rejected with code 11000 if the
\* identity exists.
PhoneCreate(c) ==
    /\ clients[c].kind = "phone" /\ clients[c].pc = "creating"
    /\ \E date \in clients[c].stamp..now :
          LET cl == clients[c]
          IN IF UniqueIndexAllows(store, cl.url, date)
             THEN StoreStep(c, [cl EXCEPT !.pc = "done", !.stamp = date],
                            Append(store, [NewDoc(cl.url, date)
                                              EXCEPT !.phone = Slice3(cl.phones)]))
             ELSE StoreStep(c, [cl EXCEPT !.pc = "done", !.stamp = date, !.failed = TRUE],
                            store)

InitStore ==
    /\ clients \in [1..MaxCallers -> Callers]
    /\ store \in InitStores
    /\ now = 1
    /\ BATCH_SIZE = 1
    /\ input = [kind |-> "none", rows |-> <<>>]
    /\ ingest = NewIngest
    /\ hist = NewHist(store)
    /\ importProgressTracker = InitialImportProgress
    /\ phoneProgressStore = <<>>
    /\ pipes = <<>>
    /\ listing = 0
    /\ phoneRuns = <<>>
    /\ lastResp = [op |-> "none", status |-> 0]
    /\ stoppedPipes = {}
    /\ stopAccepted = FALSE
    /\ stoppedRuns = {}
    /\ snapshots = <<>>
    /\ timers = {}
    /\ blacklistProgressStore = <<>>
    /\ blacklistRuns = <<>>

NextStore ==
    \/ Tick
    \/ \E c \in 1..Len(clients) : ImportMatch(c)
    \/ \E c \in 1..Len(clients) : ImportInsert(c)
    \/ \E c \in 1..Len(clients) : BlacklistSend(c)
    \/ \E c \in 1..Len(clients) : BlacklistMatch(c)
    \/ \E c \in 1..Len(clients) : BlacklistInsert(c)
    \/ \E c \in 1..Len(clients) : PhoneFind(c)
    \/ \E c \in 1..Len(clients) : PhoneUpdateOne(c)
    \/ \E c \in 1..Len(clients) : PhoneCreate(c)

\* Import, blacklist and phone store calls of concurrent callers, interleaved.
SpecStore == InitStore /\ [][NextStore]_vars

\* The phone runs: updatePhoneNumber / stopPhoneProcessing requests and the
\* processPhoneFiles invocations they spawn.  The phone runs and the import
\* run share no state, so they are explored apart.
NextPhone ==
    \/ \E n \in 0..MaxFiles : UpdatePhoneNumber(n)
    \/ \E r \in Runs : PhoneEndBegin(r)
    \/ \E r \in Runs, rejected \in BOOLEAN : PhoneFileEnd(r, rejected)
    \/ \E r \in Runs : PhoneTimeout(r)
    \/ \E r \in Runs : OrphanEnd(r)
    \/ \E r \in Runs : StopPhoneProcessing(r)

SpecPhone == Init /\ [][NextPhone]_vars

\* ------------------------------------------------------------ properties
\* C1: a startImport request issued while the import progress record has
\* isRunning = true and isComplete = false is answered 409; it starts no
\* processFiles invocation, is not left waiting for the directory listing, and
\* leaves every field of the import progress record unchanged.
C1_ConflictRejected ==
    [][(StartImportBegin /\ importProgressTracker.isRunning
                         /\ ~importProgressTracker.isComplete)
        => /\ lastResp' = [op |-> "startImport", status |-> 409]
           /\ importProgressTracker' = importProgressTracker
           /\ pipes' = pipes
           /\ listing' = listing]_vars

\* A running import has answered a second startImport with 409.
C1_Witness ==
    /\ lastResp = [op |-> "startImport", status |-> 409]
    /\ importProgressTracker.isRunning /\ ~importProgressTracker.isComplete
    /\ ActivePipes # {}

\* C2: under every interleaving of startImport and stopImport requests at most
\* one processFiles invocation is active at any time.
C2_SingleFlight == Cardinality(ActivePipes) <= 1

\* The import half of C3: a pipeline that was alive when stopImport succeeded
\* does not move on to another file.
ImportStopHonoured ==
    \A p \in stoppedPipes : pipes'[p].i = pipes[p].i

\* The phone half of C3: a run whose stopPhoneProcessing succeeded does not
\* move on to another file.
PhoneStopHonoured ==
    \A r \in stoppedRuns : phoneRuns'[r].i = phoneRuns[r].i

\* C3: after a stop request for a run has been accepted (stopImport,
\* stopPhoneProcessing), processFile / processPhoneFile is never invoked again
\* for that run.
C3_NoFileAfterStop == [][ImportStopHonoured /\ PhoneStopHonoured]_vars

\* C4: from the moment stopImport answers success until a new import run is
\* started, the import progress record has isComplete = true and its errors
\* list holds the 'stopped by user' entry.
C4_StoppedRecordComplete ==
    stopAccepted =>
        /\ importProgressTracker.isComplete
        /\ \E k \in 1..Len(importProgressTracker.errors) :
              importProgressTracker.errors[k] = StoppedByUser

\* The processed rows of the file, in arrival order.
ProcessedRows == [j \in 1..Len(input.rows) |-> processRecord(input.rows[j])]

\* Some row of the batches of a flush has the identity of document doc and a
\* non-empty value for attribute g.
IncomingNonEmpty(batches, doc, g) ==
    \E b \in 1..Len(batches) : \E j \in 1..Len(batches[b]) :
        LET rec == batches[b][j]
        IN /\ rec.url = doc.url /\ rec.date = doc.date
           /\ g \in DOMAIN rec.fields /\ rec.fields[g] # ""

\* C5: across every import flush, for every stored document, a scalar
\* attribute that is non-empty before the flush is non-empty after it unless a
\* flushed row of that identity carries a non-empty value for it, and a
\* non-empty phone list stays non-empty (import rows carry no phones).
C5_NonEmptySurvivesFlush ==
    [][(input.kind = "import" /\ store' # store)
        => \A k \in 1..Len(store) :
              /\ \A g \in ScalarFields :
                    (store[k].f[g] # "" /\ ~IncomingNonEmpty(hist'.incoming, store[k], g))
                       => store'[k].f[g] # ""
              /\ store[k].phone # <<>> => store'[k].phone # <<>>]_vars

\* All rows of the file have the identity of its first row.
OneIdentity ==
    \A j \in 1..Len(input.rows) :
        input.rows[j].url = input.rows[1].url /\ input.rows[j].date = input.rows[1].date

\* C6: when all rows of an import file share one identity and the file has
\* been ingested without store faults, each scalar attribute for which some
\* row carries a non-empty value is stored with the first such value in
\* arrival order, whatever BATCH_SIZE is.
C6_FirstNonEmptyStored ==
    (/\ input.kind = "import" /\ Quiescent /\ hist.pass = 1 /\ hist.faults = 0
     /\ OneIdentity)
    => LET k == FindUrlDate(store, input.rows[1].url, input.rows[1].date)
       IN /\ k # 0
          /\ \A g \in ScalarFields :
                FirstNonEmpty(ProcessedRows, g) # ""
                   => store[k].f[g] = FirstNonEmpty(ProcessedRows, g)

\* Each row sets an attribute no other row of the file sets.
DistinctFields ==
    \A i, j \in 1..Len(input.rows) :
        input.rows[i].code = input.rows[j].code => i = j

\* C7: when the rows of an import file share one identity and each sets a
\* different attribute, the store after the file is ingested equals the store
\* that ingesting any permutation of the rows, under any batch size, leaves.
C7_OrderIndependent ==
    (/\ input.kind = "import" /\ Quiescent /\ hist.pass = 1 /\ hist.faults = 0
     /\ OneIdentity /\ DistinctFields)
    => \A q \in Orderings({input.rows[j] : j \in 1..Len(input.rows)}),
          b \in 1..MaxBatchSize :
          ProcessFileStore(hist.store0, q, b) = store

\* C8: once the same file content has been ingested a second time without
\* store faults, on the import path and on the phone-update path, the store
\* holds exactly the documents and values it held after the first ingestion.
C8_SecondIngestChangesNothing ==
    (Quiescent /\ hist.pass = 2 /\ hist.faults = 0) => store = hist.afterFirst

\* C10: after a bulkWrite of insertBatch failed with code 11000, insertBatch
\* has issued one individual upsert per (url, date) group of the batch and has
\* returned normally.
C10_DuplicateKeyFallback ==
    hist.lastInsert.bulk = "11000"
    => /\ hist.lastInsert.returned
       /\ hist.lastInsert.individual = hist.lastInsert.groups

\* C9: whatever import upserts, blacklist upserts and phone updates have
\* run, in whatever interleaving, no two stored documents have the same url
\* and the same date.
C9_IdentityUnique ==
    \A i, j \in 1..Len(store) :
        (store[i].url = store[j].url /\ store[i].date = store[j].date) => i = j

\* Two callers raced to insert one identity: one document is stored and the
\* other caller's insert has been rejected by the unique index.
C9_Witness ==
    \E c, d \in 1..Len(clients) :
        /\ clients[c].failed
        /\ clients[d].pc = "done" /\ ~clients[d].failed
        /\ \E k \in 1..Len(store) : store[k].url = clients[c].url

\* The invocations awaiting the answer of a bulkWrite.
AwaitingInsert(g) == {h \in 1..Len(g.handlers) : g.handlers[h].pc = "insert"}

\* This step is the answer to a bulkWrite of insertBatch.
InsertReplied ==
    /\ input.kind = "import"
    /\ Cardinality(AwaitingInsert(ingest')) < Cardinality(AwaitingInsert(ingest))

\* C11: for the (url, date) groups one insertBatch hands to the store, the
\* groups the store applied make upserted + modified grow by one each, the
\* groups it rejected make errors grow by one entry each, and nothing else
\* changes these.
C11_EachItemCountedOnce ==
    [][(InsertReplied /\ hist'.flush.bulk # "none")
       => LET t == importProgressTracker
              u == importProgressTracker'
              f == hist'.flush
          IN /\ (u.upserted + u.modified) - (t.upserted + t.modified) = f.accepted
             /\ Len(u.errors) - Len(t.errors) = f.groups - f.accepted]_vars

\* C12: while one import run goes through its files, processed, upserted and
\* modified of the import progress record never decrease.
C12_CountersNeverDecrease ==
    [][(Len(pipes) = 1 /\ Len(pipes') = 1)
       => /\ importProgressTracker'.processed >= importProgressTracker.processed
          /\ importProgressTracker'.upserted >= importProgressTracker.upserted
          /\ importProgressTracker'.modified >= importProgressTracker.modified]_vars

\* C13: once the progress record of a phone run has isComplete = true it
\* keeps isComplete = true for the rest of the run.
C13_CompletionTerminal ==
    [][\A r \in DOMAIN phoneProgressStore :
          phoneProgressStore[r].isComplete => phoneProgressStore'[r].isComplete]_vars

\* C14: a started import run reaches isComplete = true in the import progress
\* record.  No code of a run executes after its processFiles has returned, so
\* the record of a run that has returned must already have isComplete = true.
C14_ReturnedRunIsComplete ==
    (Len(pipes) = 1 /\ pipes[1].pc = "done") => importProgressTracker.isComplete

\* C15: when the only import run has gone through all its files and
\* processFiles has returned, the import progress record has isComplete = true
\* and currentFile = null (written 0).  The case checked is the one where the
\* last file was processed successfully, which leaves isComplete = true.
C15_FinalRecord ==
    (/\ Len(pipes) = 1 /\ pipes[1].pc = "done" /\ pipes[1].i = pipes[1].files
     /\ importProgressTracker.isComplete)
    => importProgressTracker.currentFile = 0

\* The timeout entries in the errors of a progress record.
TimeoutEntries(t) == {j \in 1..Len(t.errors) : t.errors[j] = PhoneTimeoutMsg}

\* The per-file timeout of run r fires in this step.
TimeoutFired(r) ==
    /\ r \in DOMAIN phoneProgressStore
    /\ Cardinality(TimeoutEntries(phoneProgressStore'[r]))
          > Cardinality(TimeoutEntries(phoneProgressStore[r]))

\* C16: when the per-file timeout of a phone run fires, the record of the run
\* has isComplete = true, no further file of the run is started, and the
\* records of the other runs are left as they are.
C16_TimeoutStopsRun ==
    [][\A r \in Runs :
          TimeoutFired(r)
          => /\ phoneProgressStore'[r].isComplete
             /\ phoneRuns'[r].i = phoneRuns[r].i
             /\ \A q \in DOMAIN phoneProgressStore \ {r} :
                   phoneProgressStore'[q] = phoneProgressStore[q]]_vars

\* C17: within one phone run a file is being processed only while no stream
\* of an earlier file of the run is still active.
C17_OneFileAtATime ==
    \A r \in DOMAIN phoneRuns :
        phoneRuns[r].pc \in {"streaming", "ending"} => phoneRuns[r].orphans = 0

\* The parser of the file the record is about reported a malformed row.
MalformedRowSeen ==
    \E j \in 1..Len(importProgressTracker.errors) :
        importProgressTracker.errors[j] = CsvParsingError

\* C18: an import file with one malformed row is processed to its end: its
\* processFile is never left with a promise that nothing will settle, and once
\* the file is done, successfully, errors holds exactly one entry.
C18_MalformedRowTolerated ==
    /\ \A p \in 1..Len(pipes) : pipes[p].pc # "hung"
    /\ (/\ Len(pipes) = 1 /\ pipes[1].pc = "done" /\ MalformedRowSeen
        /\ importProgressTracker.isComplete)
       => Len(importProgressTracker.errors) = 1

\* ------------------------------------------- rows without a usable DATE
\* Rows of one domain that set the title, with a DATE that parses or one that
\* is missing or unparsable (service line 322).
DateRowSet ==
    [url : {"a.com"}, date : {InvalidDate, 2}, code : {"[TI]"}, result : {"d"}]

InitDate == InitIngestWith({[kind |-> "import", rows |-> r] : r \in Files(DateRowSet)})

\* An import file of such rows, reaching the parser in one chunk and ingested
\* without store faults.
SpecDate == InitDate /\ [][NextPerm]_vars

\* The row is stored: a document of its url carries its value, under the
\* row's date or, for a row without a usable DATE, under the time of ingestion.
Persisted(row) ==
    \E k \in 1..Len(store) :
        /\ store[k].url = row.url
        /\ store[k].f["title"] = row.result
        /\ store[k].date = IF row.date = InvalidDate THEN now ELSE row.date

\* C19: once an import file is done, every row of it with a valid domain is
\* stored, a row without a usable DATE under the time of ingestion, and no
\* other row is lost because of such a row.
C19_UndatedRowPersisted ==
    Quiescent => \A j \in 1..Len(input.rows) : Persisted(input.rows[j])

\* ------------------------------------------------ the cap of three phones
\* [PN] rows of one domain that bring phones the stored document does not
\* have yet.
CapRowSet ==
    [url : {"a.com"}, date : {1}, code : {"[PN]"}, result : {"p3", "p4"}]

InitCap == InitIngestWith({[kind |-> "phone", rows |-> r] : r \in Files(CapRowSet)})

\* processPhoneFile on a file that reaches the parser in one chunk.
NextPhoneFile ==
    \/ Arrive(Len(input.rows))
    \/ Eof
    \/ StartReadable
    \/ \E h \in 1..Len(ingest.handlers) : ReadNull(h)
    \/ \E h \in 1..Len(ingest.handlers) : ReadPhoneRecord(h)
    \/ \E h \in 1..Len(ingest.handlers) : FindReply(h)
    \/ \E h \in 1..Len(ingest.handlers) : WriteReply(h)
    \/ PhoneEndOfFile

\* A phone file of such rows ingested into an empty collection or into one
\* whose document of the domain has two phones.
SpecCap == InitCap /\ [][NextPhoneFile]_vars

\* The phone of the row is on a stored document of its url.
PhoneStored(row) ==
    \E k \in 1..Len(store) :
        /\ store[k].url = row.url
        /\ \E i \in 1..Len(store[k].phone) : store[k].phone[i] = row.result

\* C20: every stored document has at most three phones, and when a phone
\* file is done and a phone it brought is on no document of its url, the
\* errors of the run hold an entry.  The case checked is the one where the
\* Map of the file is flushed once, at the end of the file (BATCH_SIZE above
\* one, a single url), so that a phone can only be missing because of the cap.
C20_CapDropsRecorded ==
    /\ \A k \in 1..Len(store) : Len(store[k].phone) <= 3
    /\ (Quiescent /\ BATCH_SIZE > 1 /\ \E j \in 1..Len(input.rows) : ~PhoneStored(input.rows[j]))
       => phoneProgressStore[Pid].errors # <<>>

\* ------------------------------------------- many rows for one domain
\* [PN] rows of one domain, up to MaxUrlRows of them in a file.
UrlRowSet ==
    [url : {"a.com"}, date : {1}, code : {"[PN]"}, result : {"p1", "p2"}]

UrlFiles == UNION {[1..n -> UrlRowSet] : n \in 1..MaxUrlRows}

InitUrlRows == InitIngestWith({[kind |-> "phone", rows |-> r] : r \in UrlFiles})

\* A phone file of such rows, reaching the parser in one chunk.
SpecUrlRows == InitUrlRows /\ [][NextPhoneFile]_vars

\* The distinct phones the rows of the file bring for a url.
DistinctPhones(url) ==
    {input.rows[j].result : j \in {i \in 1..Len(input.rows) : input.rows[i].url = url}}

\* C21: once a phone file is done, a url that had no stored document and for
\* which the file brought valid [PN] rows has a document whose phones number
\* min(3, distinct phones brought), however many rows brought them.  The case
\* checked is the one where the Map of the file is flushed once, at the end of
\* the file (BATCH_SIZE above one, a single url).
C21_PhonesLength ==
    (Quiescent /\ BATCH_SIZE > 1 /\ FindUrl(hist.store0, "a.com") = {})
    => \E k \in FindUrl(store, "a.com") :
          Len(store[k].phone) =
             (IF Cardinality(DistinctPhones("a.com")) < 3
              THEN Cardinality(DistinctPhones("a.com")) ELSE 3)

\* C22: when a phone update changes a stored record of a URL, the record ends
\* with the first three of the order-preserving deduplicated concatenation of
\* the phones stored in it and the incoming phones of the update, and no other
\* field of the record changes.
C22_MergedIntoStored ==
    [][input.kind = "phone"
       => \A k \in 1..Len(store) :
             store'[k] # store[k]
             => \E h \in 1..Len(ingest.handlers) :
                   /\ ingest.handlers[h].pc = "write"
                   /\ store'[k] = [store[k] EXCEPT !.phone =
                          Slice3(Dedupe(store[k].phone \o ingest.handlers[h].phones))]]_vars

\* ---------------------------------------------------------- blacklist run
InvalidDomainFormat == StringEntry("Invalid domain format")
ErrorProcessingRecord == StringEntry("Error processing record")
BlacklistFileError == StringEntry("error.message of the file-level error")

\* The record processBlacklistFile creates for an unknown processId (service
\* lines 537-548).
NewBlacklistProgress ==
    [currentFile |-> 0, processed |-> 0, total |-> 0, upserted |-> 0, modified |-> 0,
     errors |-> <<>>, isComplete |-> FALSE]

\* "Reset progress for new file" (service lines 551-557).
ProcessBlacklistFileReset(t, file) ==
    [t EXCEPT !.currentFile = file, !.processed = 0, !.total = 0, !.upserted = 0,
              !.modified = 0, !.errors = <<>>, !.isComplete = FALSE]

\* A mutation of the run's progressTracker, the object the store returns for
\* one processId only.
MutateTracker_Shared(m, processId, t) == [k \in DOMAIN m |-> t]

\* A mutation of the run's progressTracker: the object blacklistProgressStore
\* holds under processId (service lines 536-548).
MutateTracker(m, processId, t) == [m EXCEPT ![processId] = t]

\* updateBlacklist (controller lines 303-337): 404 on an empty listing;
\* otherwise a new processId and processBlacklistFiles run up to its first
\* suspension, the mkdir of processBlacklistFile of file 1, which has created
\* and reset the record.
UpdateBlacklist(n) ==
    /\ IF n = 0
       THEN /\ lastResp' = [op |-> "updateBlacklist", status |-> 404]
            /\ UNCHANGED blacklistVars
       ELSE LET r == Cardinality(DOMAIN blacklistRuns) + 1
            IN /\ r \in Runs
               /\ blacklistProgressStore' =
                     (r :> ProcessBlacklistFileReset(NewBlacklistProgress, 1))
                        @@ blacklistProgressStore
               /\ blacklistRuns' =
                     (r :> [files |-> n, i |-> 1, pc |-> "reading", left |-> 0, ended |-> 0])
                        @@ blacklistRuns
               /\ lastResp' = [op |-> "updateBlacklist", status |-> 200]
    /\ UNCHANGED <<importVars, phoneVars, storeVars>>

\* readFile resolves with k non-blank lines (service lines 561-569).
BlacklistRead(r, k) ==
    /\ r \in DOMAIN blacklistRuns
    /\ blacklistRuns[r].pc = "reading"
    /\ blacklistRuns' = [blacklistRuns EXCEPT ![r].pc = "records", ![r].left = k]
    /\ blacklistProgressStore' =
          MutateTracker(blacklistProgressStore, r,
                        [blacklistProgressStore[r] EXCEPT !.total = k])
    /\ UNCHANGED <<importVars, phoneVars, storeVars, lastResp>>

\* One pass of the record loop (service lines 571-640).  A record whose url
\* is missing or not a valid domain is reported and passed over; when the
\* appendFile that follows the report rejects (lines 577, 585, 599), the catch
\* block reports the record again (lines 635-638); a store error is reported;
\* otherwise the upsert is counted in processed.  The document
\* findOneAndUpdate returns is a loaded one: isNew is false and no path is
\* modified, so upserted and modified stay as they are.
BlacklistRecord(r, outcome) ==
    /\ r \in DOMAIN blacklistRuns
    /\ blacklistRuns[r].pc = "records"
    /\ blacklistRuns[r].left > 0
    /\ blacklistRuns' = [blacklistRuns EXCEPT ![r].left = @ - 1]
    /\ LET t == blacklistProgressStore[r]
       IN blacklistProgressStore' =
             MutateTracker(blacklistProgressStore, r,
                 CASE outcome = "invalid" -> [t EXCEPT !.errors = Append(@, InvalidDomainFormat)]
                   [] outcome = "unlogged" ->
                         [t EXCEPT !.errors = @ \o <<InvalidDomainFormat, ErrorProcessingRecord>>]
                   [] outcome = "error" -> [t EXCEPT !.errors = Append(@, ErrorProcessingRecord)]
                   [] OTHER -> [t EXCEPT !.processed = @ + 1])
    /\ UNCHANGED <<importVars, phoneVars, storeVars, lastResp>>

\* processBlacklistFiles after processBlacklistFile returned (controller
\* lines 296-301): the prologue of the next file, or the end of the loop;
\* ended notes the hour at which the run was over.
BlacklistAdvance(run) ==
    IF run.i = run.files THEN [run EXCEPT !.pc = "done", !.ended = now]
    ELSE [run EXCEPT !.i = @ + 1, !.pc = "reading"]

\* The file is archived and isComplete set (service lines 642-655); the loop
\* of processBlacklistFiles goes on to its next suspension.
BlacklistFileEnd(r) ==
    /\ r \in DOMAIN blacklistRuns
    /\ blacklistRuns[r].pc = "records"
    /\ blacklistRuns[r].left = 0
    /\ blacklistRuns' = [blacklistRuns EXCEPT ![r] = BlacklistAdvance(@)]
    /\ LET t == [blacklistProgressStore[r] EXCEPT !.isComplete = TRUE]
       IN blacklistProgressStore' =
             MutateTracker(blacklistProgressStore, r,
                 IF blacklistRuns[r].i = blacklistRuns[r].files THEN t
                 ELSE ProcessBlacklistFileReset(t, blacklistRuns[r].i + 1))
    /\ UNCHANGED <<importVars, phoneVars, storeVars, lastResp>>

\* A file-level error: mkdir, readFile, appendFile or archiveFile rejects.
\* processBlacklistFile rethrows (service lines 657-661), the loop of
\* processBlacklistFiles has no try (controller lines 296-301), and the catch
\* of updateBlacklist (controller lines 317-325) pushes the message through
\* the copy, onto the array the record shares, and sets isComplete on the copy
\* only.
BlacklistFileFails(r) ==
    /\ r \in DOMAIN blacklistRuns
    /\ blacklistRuns[r].pc \in {"reading", "records"}
    /\ blacklistRuns' = [blacklistRuns EXCEPT ![r].pc = "failed", ![r].ended = now]
    /\ blacklistProgressStore' =
          MutateTracker(blacklistProgressStore, r,
              [blacklistProgressStore[r] EXCEPT !.errors = Append(@, BlacklistFileError)])
    /\ UNCHANGED <<importVars, phoneVars, storeVars, lastResp>>

\* Files per phone run and lines per blacklist file where both kinds of run
\* are explored together.
MaxRunFiles == 1
MaxLines == 1

\* The blacklist and phone runs together: the requests that start and stop
\* them and the processBlacklistFiles / processPhoneFiles invocations.
NextRuns ==
    \/ \E n \in 0..MaxRunFiles : UpdateBlacklist(n)
    \/ \E r \in Runs, k \in 0..MaxLines : BlacklistRead(r, k)
    \/ \E r \in Runs, outcome \in {"invalid", "error", "ok"} : BlacklistRecord(r, outcome)
    \/ \E r \in Runs : BlacklistFileEnd(r)
    \/ \E r \in Runs : BlacklistFileFails(r)
    \/ \E n \in 0..MaxRunFiles : UpdatePhoneNumber(n)
    \/ \E r \in Runs : PhoneEndBegin(r)
    \/ \E r \in Runs, rejected \in BOOLEAN : PhoneFileEnd(r, rejected)
    \/ \E r \in Runs : PhoneTimeout(r)
    \/ \E r \in Runs : OrphanEnd(r)
    \/ \E r \in Runs : StopPhoneProcessing(r)

SpecRuns == Init /\ [][NextRuns]_vars

PhoneRecordsChanged ==
    {r \in DOMAIN phoneProgressStore : phoneProgressStore'[r] # phoneProgressStore[r]}
BlacklistRecordsChanged ==
    {r \in DOMAIN blacklistProgressStore :
        blacklistProgressStore'[r] # blacklistProgressStore[r]}

\* C23: progress records of distinct runs are isolated: a step that changes
\* or creates the progress record of one blacklist or phone run leaves the
\* record of every other run, and the import progress record, unchanged.
C23_RunsIsolated ==
    [][/\ Cardinality(PhoneRecordsChanged) + Cardinality(BlacklistRecordsChanged)
            + Cardinality(DOMAIN phoneProgressStore' \ DOMAIN phoneProgressStore)
            + Cardinality(DOMAIN blacklistProgressStore' \ DOMAIN blacklistProgressStore)
          <= 1
       /\ DOMAIN phoneProgressStore \subseteq DOMAIN phoneProgressStore'
       /\ DOMAIN blacklistProgressStore \subseteq DOMAIN blacklistProgressStore'
       /\ importProgressTracker' = importProgressTracker]_vars

\* Two blacklist runs and two phone runs, each pair with one run that has
\* advanced and one that has not.
C23_Witness ==
    /\ DOMAIN blacklistProgressStore = {1, 2} /\ DOMAIN phoneProgressStore = {1, 2}
    /\ blacklistProgressStore[1].processed = 1 /\ blacklistProgressStore[2].processed = 0
    /\ blacklistProgressStore[2].errors # <<>> /\ blacklistProgressStore[1].errors = <<>>
    /\ phoneProgressStore[1].completedFiles = 0 /\ phoneProgressStore[2].completedFiles = 1

\* processPhoneBatch for one URL run alone on store s: what it finds is what
\* it updates.
SerialPhoneUpdate(s, phones) ==
    WritePhones(s, InitialPhoneProgress(1), "a.com", Slice3(phones),
                [k \in FindUrl(s, "a.com") |-> s[k].phone], 0).store

PhoneLists(s) == [k \in 1..Len(s) |-> s[k].phone]

\* C24: when two phone runs carry phones for the same URL concurrently, the
\* phones stored for the URL once both updates are over are those of the two
\* updates run one after the other, in one order or the other: no phone is
\* lost and one record at most is created.
C24_SerialOutcome ==
    (/\ \A c \in 1..Len(clients) : clients[c].kind = "phone" /\ clients[c].pc = "done"
     /\ Len(clients) = 2)
    => PhoneLists(store) \in
          {PhoneLists(SerialPhoneUpdate(SerialPhoneUpdate(hist.store0, clients[1].phones),
                                        clients[2].phones)),
           PhoneLists(SerialPhoneUpdate(SerialPhoneUpdate(hist.store0, clients[2].phones),
                                        clients[1].phones))}

\* C25: a snapshot returned by getPhoneProgress is a copy: what its holder
\* reads from it stays what it was when the snapshot was taken, whatever the
\* pipeline and other callers do to the progress record afterwards.
C25_SnapshotFrozen ==
    \A r \in DOMAIN snapshots :
        r \in DOMAIN phoneProgressStore => ReadCopy(snapshots[r]) = snapshots[r].copy

\* ------------------------------------------------- cleanup of the stores
\* Here the clock counts hours.  The sweep runs every six hours and removes
\* what has been complete for more than twenty-four (service lines 1244-1256,
\* 1320-1323).
SweepPeriod == 6
MaxAge == 24
MaxHours == 36        \* last hour the clock reaches
MaxCleanupRuns == 1   \* runs of each kind

\* cleanupOldProgressTrackers (service lines 1244-1256) at hour t: the loop
\* visits the entries of phoneProgressStore.
cleanupOldProgressTrackers(m, t) ==
    LET old == {r \in DOMAIN m :
                   m[r].isComplete /\ m[r].lastUpdated # 0 /\ t - m[r].lastUpdated > MaxAge}
    IN [r \in DOMAIN m \ old |-> m[r]]

\* The callback of a one-hour timer (service lines 1087-1092), when it is due.
CleanupTimer(tm) ==
    /\ tm \in timers
    /\ tm.due <= now
    /\ timers' = timers \ {tm}
    /\ phoneProgressStore' =
          [r \in DOMAIN phoneProgressStore \ {tm.id} |-> phoneProgressStore[r]]
    /\ UNCHANGED <<phoneRuns, stoppedRuns, snapshots, lastResp>>
    /\ UNCHANGED <<importVars, storeVars, blacklistVars>>

\* The next hour at which something is scheduled: a timer is due or the
\* setInterval callback runs.
NextEvent ==
    LET sweep == (now \div SweepPeriod + 1) * SweepPeriod
        due == {tm.due : tm \in timers} \cup {sweep}
    IN CHOOSE t \in due : \A u \in due : t <= u

\* Time passes up to the next scheduled hour, once the timers due have fired;
\* the setInterval callback (service lines 1320-1323) runs at every sixth hour.
HourPasses ==
    /\ NextEvent <= MaxHours
    /\ \A tm \in timers : tm.due > now
    /\ now' = NextEvent
    /\ phoneProgressStore' =
          IF NextEvent % SweepPeriod = 0
          THEN cleanupOldProgressTrackers(phoneProgressStore, NextEvent)
          ELSE phoneProgressStore
    /\ UNCHANGED <<store, clients, ingestVars>>
    /\ UNCHANGED <<importVars, phoneRuns, stoppedRuns, snapshots, timers, lastResp,
                   blacklistVars>>

InitCleanup ==
    /\ importProgressTracker = InitialImportProgress
    /\ pipes = <<>>
    /\ listing = 0
    /\ phoneProgressStore = <<>>
    /\ phoneRuns = <<>>
    /\ lastResp = [op |-> "none", status |-> 0]
    /\ stoppedPipes = {}
    /\ stopAccepted = FALSE
    /\ stoppedRuns = {}
    /\ snapshots = <<>>
    /\ timers = {}
    /\ blacklistProgressStore = <<>>
    /\ blacklistRuns = <<>>
    /\ store = <<>>
    /\ now = 1
    /\ BATCH_SIZE = 1
    /\ input = [kind |-> "none", rows |-> <<>>]
    /\ ingest = NewIngest
    /\ hist = NewHist(<<>>)
    /\ clients = <<>>

\* One blacklist run and one phone run of one file each, the timers, the
\* sweep and the clock.  A phone run acts while its record is in the store.
NextCleanup ==
    \/ Cardinality(DOMAIN blacklistRuns) < MaxCleanupRuns /\ UpdateBlacklist(MaxRunFiles)
    \/ \E r \in Runs, k \in 0..MaxLines : BlacklistRead(r, k)
    \/ \E r \in Runs : BlacklistRecord(r, "ok")
    \/ \E r \in Runs : BlacklistFileEnd(r)
    \/ \E r \in Runs : BlacklistFileFails(r)
    \/ Cardinality(DOMAIN phoneRuns) < MaxCleanupRuns /\ UpdatePhoneNumber(MaxRunFiles)
    \/ \E r \in DOMAIN phoneProgressStore : PhoneEndBegin(r)
    \/ \E r \in DOMAIN phoneProgressStore, rejected \in BOOLEAN : PhoneFileEnd(r, rejected)
    \/ \E r \in DOMAIN phoneProgressStore : PhoneTimeout(r)
    \/ \E r \in DOMAIN phoneProgressStore : OrphanEnd(r)
    \/ \E r \in DOMAIN phoneProgressStore : StopPhoneProcessing(r)
    \/ \E tm \in timers : CleanupTimer(tm)
    \/ HourPasses

SpecCleanup == InitCleanup /\ [][NextCleanup]_vars

\* C26: the progress record of a blacklist or phone run that has completed is
\* removed from its store: once the one-hour timer and a sweep later than
\* twenty-four hours after the completion have had their time, the record is
\* no longer there.
C26_CompletedRecordRemoved ==
    /\ \A r \in DOMAIN phoneProgressStore :
          ~(phoneProgressStore[r].isComplete
            /\ now - phoneProgressStore[r].lastUpdated > MaxAge + SweepPeriod)
    /\ \A r \in DOMAIN blacklistProgressStore :
          ~(blacklistRuns[r].pc = "done"
            /\ now - blacklistRuns[r].ended > MaxAge + SweepPeriod)

\* The blacklist runs alone, with listings of up to MaxFiles files.
NextBlacklist ==
    \/ \E n \in 0..MaxFiles : UpdateBlacklist(n)
    \/ \E r \in Runs, k \in 0..MaxLines : BlacklistRead(r, k)
    \/ \E r \in Runs, outcome \in {"invalid", "unlogged", "error", "ok"} : BlacklistRecord(r, outcome)
    \/ \E r \in Runs : BlacklistFileEnd(r)
    \/ \E r \in Runs : BlacklistFileFails(r)

SpecBlacklist == Init /\ [][NextBlacklist]_vars

\* C27: a file-level error abandons the file, not the run: a blacklist run
\* is over, with or without failed files, only when the last file of its list
\* has been taken up.
C27_RemainingFilesTaken ==
    \A r \in DOMAIN blacklistRuns :
        blacklistRuns[r].pc \in {"done", "failed"}
        => blacklistRuns[r].i = blacklistRuns[r].files

\* ------------------------------------------------------- urls of the rows
\* A url is a sequence of tokens: "http://" (at its start only), the label
\* pieces "www", "a" and "A", the dot, the slash, and "_", a character outside
\* letters, digits and hyphen.
MaxUrlTokens == 4
LabelTokens == {"www", "a", "A"}
BodyTokens == LabelTokens \cup {".", "/", "_"}
UrlBodies == UNION {[1..n -> BodyTokens] : n \in 0..MaxUrlTokens}
UrlSet == UrlBodies \cup {<<"http://">> \o b : b \in UrlBodies}

\* /^[a-zA-Z0-9-]+(\.[a-zA-Z0-9-]+)+$/ (src/test.js lines 1-3): labels
\* of letters, digits and hyphens, two or more, separated by single dots.
isValidDomain(domain) ==
    /\ domain # <<>>
    /\ \A j \in 1..Len(domain) : domain[j] \in LabelTokens \cup {"."}
    /\ domain[1] # "." /\ domain[Len(domain)] # "."
    /\ \A j \in 1..(Len(domain) - 1) : ~(domain[j] = "." /\ domain[j + 1] = ".")
    /\ \E j \in 1..Len(domain) : domain[j] = "."

\* .replace(/^(https?:\/\/)/i, '')
StripProtocol(url) == IF url # <<>> /\ Head(url) = "http://" THEN Tail(url) ELSE url

\* .replace(/^www\./i, '')
StripWww(url) ==
    IF Len(url) >= 2 /\ url[1] = "www" /\ url[2] = "." THEN SubSeq(url, 3, Len(url)) ELSE url

\* .replace(/^([^/]+).*?$/, '$1'): what precedes the first slash, when the
\* string does not begin with one.
StripPath(url) ==
    IF url = <<>> \/ Head(url) = "/" THEN url
    ELSE LET slashes == {j \in 1..Len(url) : url[j] = "/"}
         IN IF slashes = {} THEN url
            ELSE SubSeq(url, 1, (CHOOSE j \in slashes : \A k \in slashes : j <= k) - 1)

\* .toLowerCase()
toLowerCase(url) == [j \in 1..Len(url) |-> IF url[j] = "A" THEN "a" ELSE url[j]]

\* trimUrl of processRecord (service lines 272-278).
trimUrl(url) == IF url = <<>> THEN <<>> ELSE StripPath(StripWww(StripProtocol(url)))

\* cleanUrl of processPhoneFile (service lines 989-993) and the cleaning of
\* processBlacklistFile (service lines 590-594).
cleanUrl(url) == toLowerCase(StripPath(StripWww(StripProtocol(url))))

\* One row whose first column is a url of UrlSet, for one of the three
\* pipelines, and an empty collection.
InitUrl ==
    /\ store = <<>>
    /\ InitIngestWith({[kind |-> k, rows |-> <<[url |-> u, date |-> 1, code |-> "[PN]",
                                                result |-> "p1"]>>] :
                          k \in {"import", "blacklist", "phone"}, u \in UrlSet})

RowTaken == hist' = [hist EXCEPT !.pass = 2]

\* processRecord on the row of an import file (service lines 298-323) and the
\* upsert of the document it returns.
ImportUrl ==
    /\ input.kind = "import" /\ hist.pass = 1
    /\ RowTaken
    /\ LET url == input.rows[1].url
       IN store' = IF isValidDomain(url)
                   THEN UpsertOne(store,
                            processRecord([input.rows[1] EXCEPT !.url = trimUrl(url)]))
                   ELSE store
    /\ UNCHANGED <<now, BATCH_SIZE, input, ingest>>
    /\ UNCHANGED <<coordVars, importProgressTracker, phoneProgressStore>>

\* One record of a blacklist file (service lines 581-622).
BlacklistUrl ==
    /\ input.kind = "blacklist" /\ hist.pass = 1
    /\ RowTaken
    /\ LET url == cleanUrl(input.rows[1].url)
           ks == FindUrl(store, url)
       IN store' =
             IF input.rows[1].url = <<>> \/ ~isValidDomain(url) THEN store
             ELSE IF ks # {}
             THEN [store EXCEPT ![CHOOSE k \in ks : \A j \in ks : k <= j].is_blacklisted = TRUE]
             ELSE Append(store, [NewDoc(url, now) EXCEPT !.is_blacklisted = TRUE])
    /\ UNCHANGED <<now, BATCH_SIZE, input, ingest>>
    /\ UNCHANGED <<coordVars, importProgressTracker, phoneProgressStore>>

\* One [PN] row of a phone file (service lines 978-1023) and the write of
\* processPhoneBatch for its url.
PhoneUrl ==
    /\ input.kind = "phone" /\ hist.pass = 1
    /\ RowTaken
    /\ LET url == cleanUrl(input.rows[1].url)
           w == WritePhones(store, phoneProgressStore[Pid], url, <<input.rows[1].result>>,
                            [k \in FindUrl(store, url) |-> store[k].phone], now)
       IN IF input.rows[1].url = <<>> \/ ~isValidDomain(url)
          THEN UNCHANGED <<store, phoneProgressStore>>
          ELSE /\ store' = w.store
               /\ phoneProgressStore' = [phoneProgressStore EXCEPT ![Pid] = w.t]
    /\ UNCHANGED <<now, BATCH_SIZE, input, ingest>>
    /\ UNCHANGED <<coordVars, importProgressTracker>>

NextUrl == ImportUrl \/ BlacklistUrl \/ PhoneUrl

SpecUrl == InitUrl /\ [][NextUrl]_vars

\* C28: every url persisted by the import, blacklist and phone pipelines
\* satisfies isValidDomain.
C28_StoredUrlsValid ==
    \A k \in 1..Len(store) : isValidDomain(store[k].url)

\* ------------------------------------------------------- sentinel rows
\* Import rows of one domain whose DATE and CODE columns are empty or set and
\* whose RESULT is a sentinel or a value.
SentinelRowSet ==
    [url : {"a.com"}, date : {InvalidDate, 1}, code : {"", "[TI]"},
     result : Sentinels \cup {"x"}]

InitSentinel == InitIngestWith({[kind |-> "import", rows |-> r] : r \in Files(SentinelRowSet)})

\* An import file of such rows, reaching the parser in one chunk and ingested
\* without store faults.
SpecSentinel == InitSentinel /\ [][NextPerm]_vars

\* A sentinel row with nothing in its DATE and CODE columns.
BareSentinel(row) == row.result \in Sentinels /\ row.date = InvalidDate /\ row.code = ""

\* C29: processRecord returns the skip signal for a row whose RESULT is a
\* sentinel and which carries no data besides its url: when the readable
\* listener takes such a row, the row is not counted and joins no batch.
C29_BareSentinelSkipped ==
    [][(/\ input.kind = "import"
        /\ ingest'.pos = ingest.pos + 1
        /\ BareSentinel(input.rows[ingest.pos + 1]))
       => /\ ingest'.processed = ingest.processed
          /\ ingest'.currentBatch = ingest.currentBatch
          /\ ingest'.arrays = ingest.arrays]_vars

\* A listener invocation whose flush is not over: a bulkWrite of it is
\* awaited, or batches of it are still to be sent.
FlushInFlight(g, h) ==
    \/ g.handlers[h].pc = "insert"
    \/ g.handlers[h].pc = "pause" /\ g.handlers[h].idx < Len(g.arrays[g.handlers[h].arr])

\* C30: an import source file is moved to the completed directory, and its
\* promise resolved, only after every batch built from its rows has been
\* written: at that step no flush for the file is in flight or pending.
C30_MovedAfterEveryFlush ==
    [][(/\ input.kind = "import"
        /\ ingest.settled = "no"
        /\ ingest'.settled = "resolved")
       => \A h \in 1..Len(ingest'.handlers) : ~FlushInFlight(ingest', h)]_vars

\* C31: is_blacklisted is monotonic: no store call of an import flush, a
\* blacklist update or a phone update sets a stored record's is_blacklisted
\* back to false, and a record created by a pipeline other than the blacklist
\* update starts with is_blacklisted false.
C31_BlacklistMonotonic ==
    [][/\ Len(store') >= Len(store)
       /\ \A k \in 1..Len(store) : store[k].is_blacklisted => store'[k].is_blacklisted
       /\ \A k \in (Len(store) + 1)..Len(store') :
             store'[k].is_blacklisted
             => \E c \in 1..Len(clients) :
                   clients[c].kind = "blacklist" /\ clients'[c] # clients[c]]_vars

\* A blacklisted record carries the title of an import caller and the phones
\* of a phone update, or a second record was created beside it.
C31_Witness ==
    \E k \in 1..Len(store) :
        /\ store[k].is_blacklisted
        /\ \E c \in 1..Len(clients) :
              /\ clients[c].kind = "blacklist" /\ clients[c].pc = "done"
        /\ \E c \in 1..Len(clients) :
              /\ clients[c].kind = "import" /\ clients[c].pc = "done" /\ ~clients[c].failed
              /\ store[k].f["title"] = clients[c].result
              /\ clients[c].result = "y"

\* The batch whose bulkWrite is answered by a step that changes the store.
FlushedDocs ==
    {d \in UNION {{ingest.arrays[ingest.handlers[h].arr][ingest.handlers[h].idx][j] :
                      j \in 1..Len(ingest.arrays[ingest.handlers[h].arr][ingest.handlers[h].idx])} :
                   h \in {g \in 1..Len(ingest.handlers) :
                             /\ ingest.handlers[g].pc = "insert"
                             /\ \/ g > Len(ingest'.handlers)
                                \/ ingest'.handlers[g] # ingest.handlers[g]}} : TRUE}

\* C32: an imported row whose url is stored under another date creates a
\* record for (url, new date) and leaves every field of the stored record
\* unchanged; a row whose url and date are both stored creates no record.
C32_OtherDateUntouched ==
    [][(input.kind = "import" /\ store' # store)
       => /\ Len(store') >= Len(store)
          /\ \A k \in 1..Len(store) :
                \/ store'[k] = store[k]
                \/ /\ store'[k].url = store[k].url /\ store'[k].date = store[k].date
                   /\ \E d \in FlushedDocs : d.url = store[k].url /\ d.date = store[k].date
          /\ \A k \in (Len(store) + 1)..Len(store') :
                /\ FindUrlDate(store, store'[k].url, store'[k].date) = 0
                /\ \E d \in FlushedDocs : d.url = store'[k].url /\ d.date = store'[k].date
          /\ hist'.flush.bulk = "ok"
             => \A d \in FlushedDocs : FindUrlDate(store', d.url, d.date) # 0]_vars

\* The file brought a row of the stored date and a row of another date: the
\* stored record took the first, a second record holds the other.
C32_Witness ==
    /\ input.kind = "import"
    /\ hist.store0 = <<StoredDoc>>
    /\ Len(store) = 2
    /\ store[1].date = 1 /\ store[1].f["title"] = "y"
    /\ store[2].url = "a.com" /\ store[2].date = 2

\* C33: trimUrl is idempotent: for every url an import row brings, trimming
\* the trimmed url gives the trimmed url.
C33_TrimUrlIdempotent ==
    (input.kind = "import" /\ hist.pass = 2)
    => trimUrl(trimUrl(input.rows[1].url)) = trimUrl(input.rows[1].url)

\* --------------------------------------------------------- phone numbers
\* A phone is a sequence of characters: an optional "+", up to MaxPhoneHead
\* digits or separators ("-" stands for the spaces, dashes, dots and brackets
\* that cleanPhoneNumber removes) and up to MaxPhoneTail further digits.
MaxPhoneHead == 3
MaxPhoneTail == 10

PhoneDigits == {"1", "4", "7", "9"}

PhoneSet ==
    {plus \o head \o [j \in 1..k |-> "7"] :
        plus \in {<<>>, <<"+">>},
        head \in UNION {[1..n -> PhoneDigits \cup {"-"}] : n \in 0..MaxPhoneHead},
        k \in 0..MaxPhoneTail}

\* require('../utils/phone_country_code'): calling codes with the length of
\* the national number, one length (phoneLength, 0 when absent) or a range
\* (min and max, 0 when absent), in the order of the table.
countryPhoneCodes ==
    << [phone |-> <<"1">>, phoneLength |-> 10, min |-> 0, max |-> 0],
       [phone |-> <<"7">>, phoneLength |-> 10, min |-> 0, max |-> 0],
       [phone |-> <<"4", "4">>, phoneLength |-> 10, min |-> 0, max |-> 0],
       [phone |-> <<"4", "7">>, phoneLength |-> 8, min |-> 0, max |-> 0],
       [phone |-> <<"4", "9">>, phoneLength |-> 0, min |-> 6, max |-> 13] >>

\* phone.startsWith(prefix)
startsWith(phone, prefix) ==
    Len(phone) >= Len(prefix) /\ SubSeq(phone, 1, Len(prefix)) = prefix

\* .replace(/\D/g, '')
digitsOnly(phone) == SelectSeq(phone, LAMBDA ch : ch \in PhoneDigits)

\* checkPhoneLength (service lines 835-850).
checkPhoneLength(digits, country) ==
    IF country.phoneLength # 0 THEN Len(digits) = country.phoneLength
    ELSE IF country.min # 0 /\ country.max # 0
    THEN Len(digits) >= country.min /\ Len(digits) <= country.max
    ELSE FALSE

\* getExpectedLength (service lines 853-867).
getExpectedLength(country) ==
    IF country.phoneLength # 0 THEN country.phoneLength
    ELSE IF country.min # 0 THEN country.min
    ELSE 10

NullPhone == [kind |-> "null", code |-> <<>>, digits |-> <<>>]

\* The body of the for loops of formatPhoneWithCountryCode for one country
\* (service lines 754-783, 793-821): `[+code] digits`, with a 0 in front when
\* the number is one digit short, or no return.
formatForCountry(phone, prefix, country) ==
    LET digits == digitsOnly(SubSeq(phone, Len(prefix) + 1, Len(phone)))
    IN IF ~startsWith(phone, prefix) THEN NullPhone
       ELSE IF checkPhoneLength(digits, country)
       THEN [kind |-> "country", code |-> country.phone, digits |-> digits]
       ELSE IF Len(digits) = getExpectedLength(country) - 1
       THEN [kind |-> "country", code |-> country.phone, digits |-> <<"0">> \o digits]
       ELSE NullPhone

\* for (const country of countryPhoneCodes) from position j on: the first
\* country that returns.
RECURSIVE scanCountries(_, _, _)
scanCountries(phone, plus, j) ==
    IF j > Len(countryPhoneCodes) THEN NullPhone
    ELSE LET r == formatForCountry(phone, plus \o countryPhoneCodes[j].phone,
                                   countryPhoneCodes[j])
         IN IF r # NullPhone THEN r ELSE scanCountries(phone, plus, j + 1)

\* formatPhoneWithCountryCode (service lines 739-832).
formatPhoneWithCountryCode(phone) ==
    LET withPlus == IF startsWith(phone, <<"+">>)
                    THEN scanCountries(phone, <<"+">>, 1) ELSE NullPhone
        without == scanCountries(phone, <<>>, 1)
        digits == digitsOnly(phone)
    IN IF withPlus # NullPhone THEN withPlus
       ELSE IF without # NullPhone THEN without
       ELSE IF Len(digits) \in {10, 11}
       THEN [kind |-> "bare", code |-> <<>>, digits |-> digits]
       ELSE NullPhone

\* cleanPhoneNumber (service lines 705-736): separators removed, then the
\* country formatter.
cleanPhoneNumber(phone) ==
    IF phone = <<>> THEN NullPhone
    ELSE formatPhoneWithCountryCode(SelectSeq(phone, LAMBDA ch : ch # "-"))

\* isValidPhoneNumber (service lines 673-702): the digits after `] `, or all
\* digits of an unformatted number, are 10 or 11.
isValidPhoneNumber(phone) ==
    /\ cleanPhoneNumber(phone) # NullPhone
    /\ Len(cleanPhoneNumber(phone).digits) \in {10, 11}

InvalidPhoneNumber == StringEntry("Invalid phone number")
FailedToCleanPhone == StringEntry("Failed to clean phone number")

\* One [PN] row of a valid domain whose third column is a phone of PhoneSet,
\* and an empty collection.
InitFormat ==
    /\ store = <<>>
    /\ InitIngestWith({[kind |-> "phone",
                        rows |-> <<[url |-> "a.com", date |-> 1, code |-> "[PN]",
                                    result |-> ph]>>] : ph \in PhoneSet})

\* processPhoneFile on the row (service lines 1004-1024, 1042-1062): the
\* phone is validated and cleaned, and the cleaned phone is written to the
\* document of the url, or the row leaves an entry in errors.
PhoneFormat ==
    /\ input.kind = "phone" /\ hist.pass = 1
    /\ RowTaken
    /\ LET phone == input.rows[1].result
           w == WritePhones(store, phoneProgressStore[Pid], input.rows[1].url,
                            <<cleanPhoneNumber(phone)>>,
                            [k \in FindUrl(store, input.rows[1].url) |-> store[k].phone], now)
       IN IF phone = <<>>
          THEN UNCHANGED <<store, phoneProgressStore>>
          ELSE IF ~isValidPhoneNumber(phone)
          THEN /\ phoneProgressStore' =
                     [phoneProgressStore EXCEPT ![Pid].errors = Append(@, InvalidPhoneNumber)]
               /\ UNCHANGED store
          ELSE IF cleanPhoneNumber(phone) = NullPhone
          THEN /\ phoneProgressStore' =
                     [phoneProgressStore EXCEPT ![Pid].errors = Append(@, FailedToCleanPhone)]
               /\ UNCHANGED store
          ELSE /\ store' = w.store
               /\ phoneProgressStore' = [phoneProgressStore EXCEPT ![Pid] = w.t]
    /\ UNCHANGED <<now, BATCH_SIZE, input, ingest>>
    /\ UNCHANGED <<coordVars, importProgressTracker>>

NextFormat == PhoneFormat

SpecFormat == InitFormat /\ [][NextFormat]_vars

\* A calling code of the table is a prefix of the phone, behind a "+" or not.
CountryMatches(phone) ==
    \E j \in 1..Len(countryPhoneCodes) :
        \/ startsWith(phone, <<"+">> \o countryPhoneCodes[j].phone)
        \/ startsWith(phone, countryPhoneCodes[j].phone)

\* C34: formatPhoneWithCountryCode accepts a number under a country only
\* when the digits behind the calling code number one of the country's
\* lengths, or one less with a 0 put in front, and it falls back to the bare
\* 10 or 11 digits only when no calling code matches: a number with a
\* matching code and a wrong length gives null.
C34_WrongLengthRejected ==
    hist.pass = 2
    => LET phone == SelectSeq(input.rows[1].result, LAMBDA ch : ch # "-")
           r == formatPhoneWithCountryCode(phone)
       IN /\ r.kind = "country"
             => \E j \in 1..Len(countryPhoneCodes) :
                   /\ countryPhoneCodes[j].phone = r.code
                   /\ \/ checkPhoneLength(r.digits, countryPhoneCodes[j])
                      \/ /\ Head(r.digits) = "0"
                         /\ Len(r.digits) = getExpectedLength(countryPhoneCodes[j])
          /\ r.kind = "bare" => ~CountryMatches(phone)

\* C35: in every state of a phone run completedFiles <= totalFiles: each
\* file of the run is counted at most once, whether it ended by success, by
\* an error or by the timeout.
C35_CompletedWithinTotal ==
    \A r \in DOMAIN phoneProgressStore :
        phoneProgressStore[r].completedFiles <= phoneProgressStore[r].totalFiles

\* Listener call h has handed batch idx of array arr to insertBatch.
HandedOver(g, h) == g.handlers[h].pc \in {"insert", "pause"}

\* C36: every row accepted by processFile is in exactly one batch, and that
\* batch is handed to insertBatch exactly once by the time the file finishes:
\* no two listener calls flush the same batch, and when the file is resolved
\* without a store fault every accepted row has been written.
C36_FlushedExactlyOnce ==
    input.kind = "import"
    => /\ \A h, g \in 1..Len(ingest.handlers) :
             (h # g /\ HandedOver(ingest, h) /\ HandedOver(ingest, g)
              /\ ingest.handlers[h].arr = ingest.handlers[g].arr)
             => ingest.handlers[h].idx # ingest.handlers[g].idx
       /\ (ingest.settled = "resolved" /\ hist.faults = 0)
          => \A j \in 1..Len(input.rows) :
                processRecordSkips(input.rows[j])
                \/ FindUrlDate(store, input.rows[j].url, input.rows[j].date) # 0

\* The phone of row j is on a document of its url, or a document of its url
\* holds three phones (the cap cut it).
PhoneReflected(j) ==
    \E k \in 1..Len(store) :
        /\ store[k].url = input.rows[j].url
        /\ \/ \E q \in 1..Len(store[k].phone) : store[k].phone[q] = input.rows[j].result
           \/ Len(store[k].phone) >= 3

\* C37: once a phone file is archived and every listener call has returned,
\* each accepted [PN] row is reflected in the store or the record of the file
\* holds an errors entry: no accepted phone is discarded without trace.
C37_NoPhoneDiscarded ==
    (input.kind = "phone" /\ ingest.settled = "resolved" /\ ingest.handlers = <<>>)
    => \/ phoneProgressStore[Pid].errors # <<>>
       \/ \A j \in 1..Len(input.rows) : PhoneReflected(j)

\* ------------------------------------------- one url under several dates
\* The collection is empty or holds the domain under two dates.
OtherDateDoc == [StoredDoc EXCEPT !.date = 2]

InitDates ==
    /\ clients \in [1..MaxCallers -> Callers]
    /\ store \in {<<>>, <<StoredDoc, OtherDateDoc>>}
    /\ now = 1
    /\ BATCH_SIZE = 1
    /\ input = [kind |-> "none", rows |-> <<>>]
    /\ ingest = NewIngest
    /\ hist = NewHist(store)
    /\ importProgressTracker = InitialImportProgress
    /\ phoneProgressStore = <<>>
    /\ pipes = <<>>
    /\ listing = 0
    /\ phoneRuns = <<>>
    /\ lastResp = [op |-> "none", status |-> 0]
    /\ stoppedPipes = {}
    /\ stopAccepted = FALSE
    /\ stoppedRuns = {}
    /\ snapshots = <<>>
    /\ timers = {}
    /\ blacklistProgressStore = <<>>
    /\ blacklistRuns = <<>>

SpecDates == InitDates /\ [][NextStore]_vars

\* C38: when the blacklist update of a url has succeeded, every stored record
\* of that url has is_blacklisted = true, also when the url is stored under
\* several dates.
C38_AllDatesBlacklisted ==
    [][\A c \in 1..Len(clients) :
          (/\ clients[c].kind = "blacklist"
           /\ clients[c].pc # "done"
           /\ clients'[c].pc = "done" /\ ~clients'[c].failed)
          => \A k \in 1..Len(store') :
                store'[k].url = clients[c].url => store'[k].is_blacklisted]_vars

\* ------------------------------------- one raw url through two pipelines
\* An import file of one row whose first column is a url of UrlSet, and an
\* empty collection.
InitSameUrl ==
    /\ store = <<>>
    /\ InitIngestWith({[kind |-> "import",
                        rows |-> <<[url |-> u, date |-> 1, code |-> "[TI]",
                                    result |-> "x"]>>] : u \in UrlSet})

\* updateBlacklist / updatePhoneNumber (controller lines 303-337, 355-376)
\* on a file whose row brings the raw url the import file brought.
UpdateFile(kind) ==
    /\ input.kind = "import" /\ hist.pass = 2
    /\ input' = [kind |-> kind,
                 rows |-> <<[input.rows[1] EXCEPT !.code = "[PN]", !.result = "p1"]>>]
    /\ hist' = [hist EXCEPT !.pass = 1, !.afterFirst = store]
    /\ phoneProgressStore' =
          IF kind = "phone"
          THEN (1 :> ProcessPhoneFileReset(InitialPhoneProgress(1), 1))
          ELSE phoneProgressStore
    /\ UNCHANGED <<store, now, BATCH_SIZE, ingest>>
    /\ UNCHANGED <<coordVars, importProgressTracker>>

NextSameUrl ==
    \/ ImportUrl
    \/ \E kind \in {"blacklist", "phone"} : UpdateFile(kind)
    \/ BlacklistUrl
    \/ PhoneUrl

SpecSameUrl == InitSameUrl /\ [][NextSameUrl]_vars

\* C39: a domain stored by the import is found by a later phone or blacklist
\* update of the same raw url: the update changes the stored record and
\* creates no second one.
C39_UpdateFindsImported ==
    (input.kind \in {"blacklist", "phone"} /\ hist.pass = 2 /\ hist.afterFirst # <<>>)
    => /\ Len(store) = Len(hist.afterFirst)
       /\ store # hist.afterFirst

\* C40: when processBlacklistFile marks a file complete its accounting is
\* exact: processed plus the number of entries in errors equals total, the
\* number of non-blank lines of the file.
C40_AccountingExact ==
    [][\A r \in DOMAIN blacklistRuns :
          (/\ blacklistRuns[r].pc = "records" /\ blacklistRuns[r].left = 0
           /\ blacklistRuns'[r] # blacklistRuns[r]
           /\ blacklistRuns'[r].pc # "failed")
          => blacklistProgressStore[r].processed + Len(blacklistProgressStore[r].errors)
                = blacklistProgressStore[r].total]_vars

====
